---- MODULE Spec2Model ----
(***************************************************************************)
(* A model of sparktuner: the objective function (tuner_cfg.py,            *)
(* MinimizeTimeAndResource), the managed process runner (tuner_cfg.py,     *)
(* MeasurementInterfaceExt.call_program), the local-process collector      *)
(* (spark_metrics.py), the parameter model (spark_param.py), the command   *)
(* synthesizer (spark_cmd.py), the size utilities (util.py), the scaled    *)
(* search parameter (tuner_cfg.py) and the tuner (spark_tuner.py).         *)
(*                                                                         *)
(* The parts share no state.  Each has its own specification (SpecObj,     *)
(* SpecRun, SpecColl, SpecParam, SpecCmd, SpecPartition, SpecSize,         *)
(* SpecScaled, SpecFrame, SpecTuner) over its own group of variables; the  *)
(* variables of the other groups stay at their idle values.                *)
(***************************************************************************)
EXTENDS Integers, Sequences, FiniteSets, TLC

VARIABLES
    \* ---- objective function: MinimizeTimeAndResource
    result1, result2,   \* the two Result rows handed to result_compare
    rel_tol, abs_tol,   \* fields of the MinimizeTimeAndResource object
    cmpOut,             \* what result_compare returned: <<>> before the call, <<v>> after
    int_fields,         \* whether the Results were built from Python ints
    relOut              \* what result_relative returned: <<>>, else <<v>>

VARIABLES
    \* ---- managed process runner: MeasurementInterfaceExt.call_program
    master,             \* self.metrics.spark_master: "local" or "yarn"
    pids,               \* self.pids: the list of pids to kill on interrupt
    pid_lock,           \* self.pid_lock: 0 when free, else the call holding it
    now,                \* time.time(), in whole seconds
    pc,                 \* per call: the statement call_program is at
    limit,              \* per call: the limit argument
    pid,                \* per call: p.pid (0 before the launch)
    proc,               \* per call: the state of the launched process
    exitcode,           \* per call: the exit status of the process
    in_time,            \* per call: history, it ended by itself within the limit
    returncode,         \* per call: p.returncode, <<>> for None
    killed,             \* per call: the local variable killed
    exc,                \* per call: an exception is propagating out of the try
    t0, t1,             \* per call: the local variables t0, t1
    killSent,           \* per call: which statement called kill_app, if any
    yarnKill,           \* per call: kill_app ran "yarn application -kill"
    out                 \* per call: the dict returned, <<>> before the return

VARIABLES
    \* ---- parameter model: spark_param.py
    recv,               \* the parameter object a call is made on
    op,                 \* the call: "mk", "make_param_from_str" or "make_param"
    arg,                \* the value or string the call is given
    pout                \* what the call gave: <<>> before the call, <<outcome>> after

VARIABLES
    \* ---- command synthesizer: SparkSubmitCmd
    spark_submit,       \* the SparkSubmitCmd object: its three fields
    arg_dict,           \* the arg_dict given to merge_params and make_cmd
    tuner_cfg_dict,     \* the tuner_cfg_dict given to them
    jar_path,           \* the jar_path given to make_cmd
    program_conf,       \* the program_conf given to make_cmd
    key_order,          \* the iteration order of the dicts: "asc" or "desc"
    merged,             \* what merge_params gave: <<>> before the call
    cmd                 \* what make_cmd gave: <<>> before the call

VARIABLES
    min_value,          \* ScaledIntegerParameter(name, min_value, max_value, scaling)
    max_value,
    scaling,
    sval,               \* the true-domain value given to _scale
    tuner_param,        \* <<>> before the constructor ran, else <<its outcome>>
    scaled,             \* <<>>, else <<tuner_param._scale(sval)>>
    unscaled,           \* <<>>, else <<tuner_param._unscale(scaled[1])>>
    lrange,             \* <<>>, else tuner_param.legal_range(None): <<low, high>>
    lrange_unscaled     \* for each bound of lrange: <<>>, else <<_unscale(bound)>>

VARIABLES
    nbytes,             \* the num_bytes given to Util.format_size
    unit_arg,           \* its units argument: "" unless a unit is forced
    formatted,          \* <<>>, else <<what format_size returned>>
    parsed              \* <<>>, else <<what parsing that text returned>>

VARIABLES
    heap,               \* the SparkParamType objects alive, by address
    dheap,              \* the dict objects alive, by address
    frame_calls,        \* the number of calls made on them so far
    ret                 \* what the last call returned

VARIABLES
    \* ---- the tuner: SparkConfigTuner
    self_arg_dict,          \* self.arg_dict: vars(self.args)
    self_param_dict,        \* self.param_dict
    self_ranged_param_dict, \* self.ranged_param_dict
    search_space,           \* <<>> before manipulator(), else <<its outcome>>
    runs,                   \* the number of calls of run so far
    run_pc,                 \* the statement the current call of run is at
    cfg_data,               \* desired_result.configuration.data
    tuner_cfg,              \* the local tuner_cfg of run
    run_merged,             \* <<>>, else <<what merge_params gave to make_cmd>>
    run_cmd,                \* <<>>, else <<the outcome of make_cmd>>
    launches,               \* how many times run has called call_program
    run_result,             \* <<>>, else <<what call_program returned>>
    run_ret                 \* <<>>, else <<what run returned or raised>>

VARIABLES
    \* ---- the local-process collector: ProcessMetrics under call_program
    cpu_num,                \* self.cpu_num
    process_dict,           \* self.process_dict: pid -> psutil.Process
    process_info_dict,      \* self.process_info_dict: pid -> 4-tuple
    coll_clock,             \* time.time(), in seconds
    coll_pc,                \* where the current call_program is
    process_id,             \* p.pid of the current (or last) subprocess
    proc_state,             \* "none", "running" or "exited" (not reaped)
    coll_calls,             \* finished calls of call_program
    updates,                \* iterations of the sampling loop in this call
    call_log,               \* history: the readings taken in this call
    call_t0,                \* history: time.time() at this call's start()
    sample_log,             \* history: pid -> every reading since registered
    metrics,                \* <<>>, else <<what get_perf_metrics returned>>
    metrics_at              \* history: end_time of that get_perf_metrics

objVars == <<result1, result2, rel_tol, abs_tol, cmpOut, int_fields, relOut>>
runVars == <<master, pids, pid_lock, now, pc, limit, pid, proc, exitcode,
             in_time, returncode, killed, exc, t0, t1, killSent, yarnKill, out>>

paramVars == <<recv, op, arg, pout>>

cmdVars == <<spark_submit, arg_dict, tuner_cfg_dict, jar_path, program_conf,
             key_order, merged, cmd>>

scaledVars == <<min_value, max_value, scaling, sval, tuner_param, scaled,
                unscaled, lrange, lrange_unscaled>>

sizeVars == <<nbytes, unit_arg, formatted, parsed>>

frameVars == <<heap, dheap, frame_calls, ret>>

tunerVars == <<self_arg_dict, self_param_dict, self_ranged_param_dict, search_space, runs, run_pc, cfg_data, tuner_cfg, run_merged, run_cmd, launches, run_result, run_ret>>

collVars == <<cpu_num, process_dict, process_info_dict, coll_clock, coll_pc, process_id, proc_state, coll_calls, updates, call_log, call_t0, sample_log, metrics, metrics_at>>

vars == <<objVars, runVars, paramVars, cmdVars, scaledVars, sizeVars,
          frameVars,
          tunerVars,
          collVars>>

\* what an action of one part leaves alone: the variables of the other parts
notTunerVars == <<objVars,
    runVars,
    paramVars,
    cmdVars,
    scaledVars,
    sizeVars,
    frameVars,
    collVars>>
notCollVars == <<objVars,
    runVars,
    paramVars,
    cmdVars,
    scaledVars,
    sizeVars,
    frameVars,
    tunerVars>>
notObjVars == <<runVars, paramVars, cmdVars, scaledVars, sizeVars,
    frameVars,
    tunerVars,
    collVars>>
notRunVars == <<objVars, paramVars, cmdVars, scaledVars, sizeVars,
    frameVars,
    tunerVars,
    collVars>>
notParamVars == <<objVars, runVars, cmdVars, scaledVars, sizeVars,
    frameVars,
    tunerVars,
    collVars>>
notCmdVars == <<objVars, runVars, paramVars, scaledVars, sizeVars,
    frameVars,
    tunerVars,
    collVars>>
notScaledVars == <<objVars, runVars, paramVars, cmdVars, sizeVars,
    frameVars,
    tunerVars,
    collVars>>
notFrameVars == <<objVars, runVars, paramVars, cmdVars, scaledVars,
                  sizeVars,
    tunerVars,
    collVars>>
notSizeVars == <<objVars, runVars, paramVars, cmdVars, scaledVars,
    frameVars,
    tunerVars,
    collVars>>

(***************************************************************************)
(* Python floats.  A float is +-infinity, not-a-number, or a finite value  *)
(* kept as an exact fraction n/d (d > 0); rounding of finite values is not *)
(* modelled.  The operators follow IEEE 754 as Python 2 exposes it.        *)
(***************************************************************************)
Rat(n, d) == [k |-> "fin", n |-> n, d |-> d]
Fin(n) == Rat(n, 1)
PosInf == [k |-> "inf", n |-> 1, d |-> 1]
NegInf == [k |-> "inf", n |-> -1, d |-> 1]
NaN == [k |-> "nan", n |-> 0, d |-> 1]

IsNaN(a) == a.k = "nan"
IsInf(a) == a.k = "inf"
IsFin(a) == a.k = "fin"

\* abs(a)
fabs(a) ==
    IF IsFin(a) THEN Rat(IF a.n < 0 THEN -a.n ELSE a.n, a.d)
    ELSE IF IsInf(a) THEN PosInf
    ELSE NaN

\* a - b
fsub(a, b) ==
    IF IsNaN(a) \/ IsNaN(b) THEN NaN
    ELSE IF IsInf(a) /\ IsInf(b) THEN (IF a.n = b.n THEN NaN ELSE a)
    ELSE IF IsInf(a) THEN a
    ELSE IF IsInf(b) THEN (IF b.n > 0 THEN NegInf ELSE PosInf)
    ELSE Rat(a.n * b.d - b.n * a.d, a.d * b.d)

\* a * b
fmul(a, b) ==
    IF IsNaN(a) \/ IsNaN(b) THEN NaN
    ELSE IF IsInf(a) \/ IsInf(b) THEN
        (IF a.n = 0 \/ b.n = 0 THEN NaN
         ELSE IF (a.n > 0) = (b.n > 0) THEN PosInf ELSE NegInf)
    ELSE Rat(a.n * b.n, a.d * b.d)

\* a < b (false when either is not-a-number)
flt(a, b) ==
    IF IsNaN(a) \/ IsNaN(b) THEN FALSE
    ELSE IF IsInf(a) /\ IsInf(b) THEN a.n < b.n
    ELSE IF IsInf(a) THEN a.n < 0
    ELSE IF IsInf(b) THEN b.n > 0
    ELSE a.n * b.d < b.n * a.d

\* a == b
feq(a, b) ==
    IF IsNaN(a) \/ IsNaN(b) THEN FALSE
    ELSE IF IsInf(a) \/ IsInf(b) THEN IsInf(a) /\ IsInf(b) /\ a.n = b.n
    ELSE a.n * b.d = b.n * a.d

\* a <= b
fle(a, b) == flt(a, b) \/ feq(a, b)

\* the builtin max(a, b): keeps a unless b > a
pymax(a, b) == IF flt(a, b) THEN b ELSE a

\* the builtin cmp(a, b) of Python 2, on values that are not not-a-number
cmp(a, b) == IF flt(a, b) THEN -1 ELSE IF flt(b, a) THEN 1 ELSE 0

(***************************************************************************)
(* util.py, Util.isclose                                                   *)
(***************************************************************************)
isclose(a, b, rtol, atol) ==
    fle(fabs(fsub(a, b)), pymax(fmul(rtol, pymax(fabs(a), fabs(b))), atol))

(***************************************************************************)
(* tuner_cfg.py, MinimizeTimeAndResource.result_compare                    *)
(***************************************************************************)
\* result_compare without the tolerance test
result_compare_by_time(r1, r2, rtol, atol) == cmp(r1.time, r2.time)

result_compare(r1, r2, rtol, atol) ==
    IF isclose(r1.time, r2.time, rtol, atol)
    THEN cmp(r1.size, r2.size)
    ELSE cmp(r1.time, r2.time)

(***************************************************************************)
(* util.py, Util.ratio, and MinimizeTimeAndResource.result_relative.  The  *)
(* code is Python 2: a / b of two ints is the floor division, of anything  *)
(* else the float division.  a_int and b_int tell whether a and b are      *)
(* ints.                                                                   *)
(***************************************************************************)
\* a / b for b /= 0, neither not-a-number
true_div(a, b) ==
    IF IsInf(a) /\ IsInf(b) THEN NaN
    ELSE IF IsInf(a) THEN (IF (a.n > 0) = (b.n > 0) THEN PosInf ELSE NegInf)
    ELSE IF IsInf(b) THEN Fin(0)
    ELSE IF b.n < 0 THEN Rat((0 - a.n) * b.d, a.d * (0 - b.n))
    ELSE Rat(a.n * b.d, a.d * b.n)

ratio(a, a_int, b, b_int) ==
    IF feq(b, Fin(0)) THEN fmul(PosInf, a)
    ELSE IF a_int /\ b_int THEN Fin(a.n \div b.n)
    ELSE true_div(a, b)

\* whether a field of a Result holds a Python int
is_int_field(x, ints) == ints /\ IsFin(x) /\ x.d = 1

result_relative(r1, r2, rtol, atol, ints) ==
    IF isclose(r1.time, r2.time, rtol, atol)
    THEN ratio(r1.size, is_int_field(r1.size, ints),
               r2.size, is_int_field(r2.size, ints))
    ELSE ratio(r1.time, is_int_field(r1.time, ints),
               r2.time, is_int_field(r2.time, ints))

(***************************************************************************)
(* Inputs of the objective function.  A Result row has a time (seconds, or *)
(* +infinity for a run that timed out) and a size.                         *)
(***************************************************************************)
MaxObjTime == 3
MaxObjSize == 2

ObjTimes == {Fin(n) : n \in 0..MaxObjTime} \cup {PosInf}
ObjSizes == {Fin(n) : n \in 0..MaxObjSize}
Results == [time : ObjTimes, size : ObjSizes]

\* rel_tol as objective() installs it (0.06), and two other choices
RelTols == {Rat(6, 100), Rat(1, 2), Fin(0)}
\* abs_tol: the constructor's default 0.0, and one nonzero choice
AbsTols == {Fin(0), Fin(1)}

\* one call obj.result_compare(result1, result2)
ResultCompare ==
    /\ cmpOut = <<>>
    /\ cmpOut' = <<result_compare(result1, result2, rel_tol, abs_tol)>>
    /\ UNCHANGED <<result1, result2, rel_tol, abs_tol, int_fields, relOut>>
    /\ UNCHANGED notObjVars

\* one call obj.result_relative(result1, result2)
ResultRelative ==
    /\ relOut = <<>>
    /\ relOut' = <<result_relative(result1, result2, rel_tol, abs_tol,
                                   int_fields)>>
    /\ UNCHANGED <<result1, result2, rel_tol, abs_tol, int_fields, cmpOut>>
    /\ UNCHANGED notObjVars

ObjNext == ResultCompare \/ ResultRelative

(***************************************************************************)
(* The managed process runner: tuner_cfg.py, MeasurementInterfaceExt.      *)
(* Several threads may be inside call_program of one interface object;     *)
(* they share self.pids and self.pid_lock.  A step of the model is one     *)
(* statement of call_program, and the launched processes and the clock     *)
(* move on their own (ProcExit, Tick).                                     *)
(***************************************************************************)
MaxCalls == 2
MaxPid == 2
MaxClock == 2
MaxLimit == 1

Calls == 1..MaxCalls
PidPool == 1..MaxPid

\* the limit argument: None, or a number of seconds
NoLimit == [set |-> FALSE, v |-> 0]
Limits == {NoLimit} \cup {[set |-> TRUE, v |-> n] : n \in 0..MaxLimit}

Finished == {"returned", "raised"}

\* self.args.master is the SparkStringType object argparse built: __init__
\* reads its .value
args_master == [cls |-> "SparkStringType", value |-> master]

\* Python's == between an object and a str: a class without __eq__ compares
\* by identity, so only a str can be equal to a str
py_eq_str(obj, s) == obj.cls = "str" /\ obj.value = s

\* self.pids.append(p.pid)
pids_append(ps, p) == Append(ps, p)

\* list.remove(x): drops the first occurrence of x
RECURSIVE list_remove(_, _)
list_remove(ps, p) ==
    IF ps = <<>> THEN <<>>
    ELSE IF Head(ps) = p THEN Tail(ps)
    ELSE <<Head(ps)>> \o list_remove(Tail(ps), p)

InList(ps, p) == \E i \in 1..Len(ps) : ps[i] = p

\* a finally block that forgets the removal
pids_remove_forgotten(ps, p) == ps

\* if p.pid in self.pids: self.pids.remove(p.pid)
pids_remove(ps, p) == IF InList(ps, p) THEN list_remove(ps, p) ELSE ps

\* the test of the elif: limit and time.time() > t0 + limit
limit_expired(lim, start, t) == lim.set /\ lim.v /= 0 /\ t > start + lim.v

\* the 'time' entry always the elapsed time, as if killed were not consulted
result_time_elapsed(k, start, end) == Fin(end - start)

\* the 'time' entry of the result: inf if killed else (t1 - t0)
result_time(k, start, end) == IF k THEN PosInf ELSE Fin(end - start)

\* the collector's start and update touch the local process only for the
\* local master (ProcessMetrics); for yarn they are empty (YarnMetrics)
start_may_raise == master = "local"
update_may_raise == master = "local"
\* YarnMetrics.get_perf_metrics queries the resource manager;
\* ProcessMetrics.get_perf_metrics reads its own dictionaries
get_perf_metrics_may_raise == master = "yarn"

\* pids the operating system may give to a new process: not the pid of a
\* process that runs or waits to be reaped.  A pid is not handed out again
\* while the call_program that launched its previous owner is still running.
FreePids ==
    {p \in PidPool : \A c \in Calls :
        pid[c] = p => (pc[c] \in Finished /\ proc[c] = "reaped")}

Goto(c, label) == pc' = [pc EXCEPT ![c] = label]

\* kill_app(p.pid, yarn_app_id): the yarn kill first when the master is
\* yarn, then goodkillpg(pid), which sends SIGKILL and swallows errors
kill_app(c, why) ==
    /\ yarnKill' = [yarnKill EXCEPT ![c] = @ \/ py_eq_str(args_master, "yarn")]
    /\ proc' = [proc EXCEPT ![c] = IF @ = "running" THEN "exited" ELSE @]
    /\ exitcode' = [exitcode EXCEPT ![c] = IF proc[c] = "running" THEN -9 ELSE @]
    /\ killSent' = [killSent EXCEPT ![c] = why]

\* t0 = time.time(); p = subprocess.Popen(...); process_id = p.pid
Launch(c) ==
    /\ pc[c] = "init"
    /\ \E p \in FreePids :
        /\ pid' = [pid EXCEPT ![c] = p]
        /\ proc' = [proc EXCEPT ![c] = "running"]
    /\ t0' = [t0 EXCEPT ![c] = now]
    /\ Goto(c, "start")
    /\ UNCHANGED <<master, in_time,
                   pids, pid_lock, now, limit, exitcode, returncode,
                   killed, exc, t1, killSent, yarnKill, out>>
    /\ UNCHANGED notRunVars

\* subprocess.Popen raises: nothing was launched
LaunchFails(c) ==
    /\ pc[c] = "init"
    /\ t0' = [t0 EXCEPT ![c] = now]
    /\ Goto(c, "raised")
    /\ UNCHANGED <<master, in_time,
                   pids, pid_lock, now, limit, pid, proc, exitcode,
                   returncode, killed, exc, t1, killSent, yarnKill, out>>
    /\ UNCHANGED notRunVars

\* self.metrics.collector.start(pid=process_id)
CollectorStart(c) ==
    /\ pc[c] = "start"
    /\ Goto(c, "lock_add")
    /\ UNCHANGED <<master, in_time,
                   pids, pid_lock, now, limit, pid, proc, exitcode,
                   returncode, killed, exc, t0, t1, killSent, yarnKill, out>>
    /\ UNCHANGED notRunVars

\* the same statement raising: it stands before the try, so the exception
\* leaves call_program at once
CollectorStartRaises(c) ==
    /\ pc[c] = "start"
    /\ start_may_raise
    /\ Goto(c, "raised")
    /\ UNCHANGED <<master, in_time,
                   pids, pid_lock, now, limit, pid, proc, exitcode,
                   returncode, killed, exc, t0, t1, killSent, yarnKill, out>>
    /\ UNCHANGED notRunVars

\* self.pid_lock.acquire()
AcquireAdd(c) ==
    /\ pc[c] = "lock_add"
    /\ pid_lock = 0
    /\ pid_lock' = c
    /\ Goto(c, "append")
    /\ UNCHANGED <<master, in_time,
                   pids, now, limit, pid, proc, exitcode,
                   returncode, killed, exc, t0, t1, killSent, yarnKill, out>>
    /\ UNCHANGED notRunVars

\* self.pids.append(p.pid)
AppendPid(c) ==
    /\ pc[c] = "append"
    /\ pids' = pids_append(pids, pid[c])
    /\ Goto(c, "unlock_add")
    /\ UNCHANGED <<master, in_time,
                   pid_lock, now, limit, pid, proc, exitcode,
                   returncode, killed, exc, t0, t1, killSent, yarnKill, out>>
    /\ UNCHANGED notRunVars

\* self.pid_lock.release(); then into the try: the two apply_async calls
ReleaseAdd(c) ==
    /\ pc[c] = "unlock_add"
    /\ pid_lock' = 0
    /\ Goto(c, "loop")
    /\ UNCHANGED <<master, in_time,
                   pids, now, limit, pid, proc, exitcode,
                   returncode, killed, exc, t0, t1, killSent, yarnKill, out>>
    /\ UNCHANGED notRunVars

\* while p.returncode is None:
LoopTest(c) ==
    /\ pc[c] = "loop"
    /\ Goto(c, IF returncode[c] = <<>> THEN "update" ELSE "finally")
    /\ UNCHANGED <<master, in_time,
                   pids, pid_lock, now, limit, pid, proc, exitcode,
                   returncode, killed, exc, t0, t1, killSent, yarnKill, out>>
    /\ UNCHANGED notRunVars

\* self.metrics.collector.update(pid=process_id, cpu_interval=1)
CollectorUpdate(c) ==
    /\ pc[c] = "update"
    /\ Goto(c, "check")
    /\ UNCHANGED <<master, in_time,
                   pids, pid_lock, now, limit, pid, proc, exitcode,
                   returncode, killed, exc, t0, t1, killSent, yarnKill, out>>
    /\ UNCHANGED notRunVars

\* the same statement raising, inside the try
CollectorUpdateRaises(c) ==
    /\ pc[c] = "update"
    /\ update_may_raise
    /\ Goto(c, "except")
    /\ UNCHANGED <<master, in_time,
                   pids, pid_lock, now, limit, pid, proc, exitcode,
                   returncode, killed, exc, t0, t1, killSent, yarnKill, out>>
    /\ UNCHANGED notRunVars

\* if limit is None: pass / elif limit and time.time() > t0 + limit:
\* killed = True ... / else: pass
TimeoutCheck(c) ==
    /\ pc[c] = "check"
    /\ IF limit_expired(limit[c], t0[c], now)
       THEN /\ killed' = [killed EXCEPT ![c] = TRUE]
            /\ Goto(c, "kill")
       ELSE /\ killed' = killed
            /\ Goto(c, "poll")
    /\ UNCHANGED <<master, in_time,
                   pids, pid_lock, now, limit, pid, proc, exitcode,
                   returncode, exc, t0, t1, killSent, yarnKill, out>>
    /\ UNCHANGED notRunVars

\* self.kill_app(p.pid, yarn_app_id), in the timeout branch
KillOnTimeout(c) ==
    /\ pc[c] = "kill"
    /\ kill_app(c, "timeout")
    /\ Goto(c, "wait")
    /\ UNCHANGED <<master, in_time,
                   pids, pid_lock, now, limit, pid,
                   returncode, killed, exc, t0, t1, out>>
    /\ UNCHANGED notRunVars

\* goodwait(p): blocks until the process has exited, and reaps it
GoodWait(c) ==
    /\ pc[c] = "wait"
    /\ proc[c] = "exited"
    /\ proc' = [proc EXCEPT ![c] = "reaped"]
    /\ returncode' = [returncode EXCEPT ![c] = <<exitcode[c]>>]
    /\ Goto(c, "poll")
    /\ UNCHANGED <<master, in_time,
                   pids, pid_lock, now, limit, pid, exitcode,
                   killed, exc, t0, t1, killSent, yarnKill, out>>
    /\ UNCHANGED notRunVars

\* p.poll(): sets p.returncode when the process has exited
Poll(c) ==
    /\ pc[c] = "poll"
    /\ IF proc[c] = "exited"
       THEN /\ proc' = [proc EXCEPT ![c] = "reaped"]
            /\ returncode' = [returncode EXCEPT ![c] = <<exitcode[c]>>]
       ELSE UNCHANGED <<proc, returncode>>
    /\ Goto(c, "loop")
    /\ UNCHANGED <<master, in_time,
                   pids, pid_lock, now, limit, pid, exitcode,
                   killed, exc, t0, t1, killSent, yarnKill, out>>
    /\ UNCHANGED notRunVars

\* except Exception: if p.returncode is None: self.kill_app(...); raise
Except(c) ==
    /\ pc[c] = "except"
    /\ IF returncode[c] = <<>>
       THEN kill_app(c, "except")
       ELSE UNCHANGED <<yarnKill, proc, exitcode, killSent>>
    /\ exc' = [exc EXCEPT ![c] = TRUE]
    /\ Goto(c, "finally")
    /\ UNCHANGED <<master, in_time,
                   pids, pid_lock, now, limit, pid,
                   returncode, killed, t0, t1, out>>
    /\ UNCHANGED notRunVars

\* finally: self.pid_lock.acquire()
AcquireRemove(c) ==
    /\ pc[c] = "finally"
    /\ pid_lock = 0
    /\ pid_lock' = c
    /\ Goto(c, "remove")
    /\ UNCHANGED <<master, in_time,
                   pids, now, limit, pid, proc, exitcode,
                   returncode, killed, exc, t0, t1, killSent, yarnKill, out>>
    /\ UNCHANGED notRunVars

\* if p.pid in self.pids: self.pids.remove(p.pid)
RemovePid(c) ==
    /\ pc[c] = "remove"
    /\ pids' = pids_remove(pids, pid[c])
    /\ Goto(c, "unlock_remove")
    /\ UNCHANGED <<master, in_time,
                   pid_lock, now, limit, pid, proc, exitcode,
                   returncode, killed, exc, t0, t1, killSent, yarnKill, out>>
    /\ UNCHANGED notRunVars

\* self.pid_lock.release(); the finally block ends: a propagating
\* exception goes on to the caller
ReleaseRemove(c) ==
    /\ pc[c] = "unlock_remove"
    /\ pid_lock' = 0
    /\ Goto(c, IF exc[c] THEN "raised" ELSE "metrics")
    /\ UNCHANGED <<master, in_time,
                   pids, now, limit, pid, proc, exitcode,
                   returncode, killed, exc, t0, t1, killSent, yarnKill, out>>
    /\ UNCHANGED notRunVars

\* t1 = time.time(); metrics = self.metrics.collector.get_perf_metrics(...)
GetPerfMetrics(c) ==
    /\ pc[c] = "metrics"
    /\ t1' = [t1 EXCEPT ![c] = now]
    /\ Goto(c, "result")
    /\ UNCHANGED <<master, in_time,
                   pids, pid_lock, now, limit, pid, proc, exitcode,
                   returncode, killed, exc, t0, killSent, yarnKill, out>>
    /\ UNCHANGED notRunVars

\* the same statement raising
GetPerfMetricsRaises(c) ==
    /\ pc[c] = "metrics"
    /\ get_perf_metrics_may_raise
    /\ t1' = [t1 EXCEPT ![c] = now]
    /\ Goto(c, "raised")
    /\ UNCHANGED <<master, in_time,
                   pids, pid_lock, now, limit, pid, proc, exitcode,
                   returncode, killed, exc, t0, killSent, yarnKill, out>>
    /\ UNCHANGED notRunVars

\* result = {...}; result.update(metrics); return result
Return(c) ==
    /\ pc[c] = "result"
    /\ out' = [out EXCEPT ![c] =
                <<[time |-> result_time(killed[c], t0[c], t1[c]),
                   timeout |-> killed[c],
                   returncode |-> returncode[c]]>>]
    /\ Goto(c, "returned")
    /\ UNCHANGED <<master, in_time,
                   pids, pid_lock, now, limit, pid, proc, exitcode,
                   returncode, killed, exc, t0, t1, killSent, yarnKill>>
    /\ UNCHANGED notRunVars

\* the launched command ends by itself, with status 0 or 1
ProcExit(c) ==
    /\ proc[c] = "running"
    /\ proc' = [proc EXCEPT ![c] = "exited"]
    /\ \E code \in {0, 1} : exitcode' = [exitcode EXCEPT ![c] = code]
    /\ in_time' = [in_time EXCEPT ![c] =
                       limit[c].set /\ now <= t0[c] + limit[c].v]
    /\ UNCHANGED <<master, pids, pid_lock, now, pc, limit, pid,
                   returncode, killed, exc, t0, t1, killSent, yarnKill, out>>
    /\ UNCHANGED notRunVars

\* a second passes
Tick ==
    /\ now < MaxClock
    /\ now' = now + 1
    /\ UNCHANGED <<master, in_time,
                   pids, pid_lock, pc, limit, pid, proc, exitcode,
                   returncode, killed, exc, t0, t1, killSent, yarnKill, out>>
    /\ UNCHANGED notRunVars

call_program(c) ==
    \/ Launch(c) \/ LaunchFails(c)
    \/ CollectorStart(c) \/ CollectorStartRaises(c)
    \/ AcquireAdd(c) \/ AppendPid(c) \/ ReleaseAdd(c)
    \/ LoopTest(c)
    \/ CollectorUpdate(c) \/ CollectorUpdateRaises(c)
    \/ TimeoutCheck(c) \/ KillOnTimeout(c) \/ GoodWait(c)
    \/ Poll(c)
    \/ Except(c)
    \/ AcquireRemove(c) \/ RemovePid(c) \/ ReleaseRemove(c)
    \/ GetPerfMetrics(c) \/ GetPerfMetricsRaises(c)
    \/ Return(c)

RunNext ==
    \/ \E c \in Calls : call_program(c)
    \/ \E c \in Calls : ProcExit(c)
    \/ Tick

(***************************************************************************)
(* Python values.  A value is an int, a bool, a str, a tuple of ints or    *)
(* None; every value carries all the fields so that any two values can be  *)
(* compared.  A str is the sequence of its characters.                     *)
(***************************************************************************)
IntV(n) == [t |-> "int", i |-> n, b |-> FALSE, s |-> <<>>, tup |-> <<>>]
BoolV(x) == [t |-> "bool", i |-> 0, b |-> x, s |-> <<>>, tup |-> <<>>]
StrV(x) == [t |-> "str", i |-> 0, b |-> FALSE, s |-> x, tup |-> <<>>]
TupV(x) == [t |-> "tuple", i |-> 0, b |-> FALSE, s |-> <<>>, tup |-> x]
NoneV == [t |-> "NoneType", i |-> 0, b |-> FALSE, s |-> <<>>, tup |-> <<>>]

\* a local variable of the code: e is evaluated once and F is given its value
Local(e, F(_)) == CHOOSE r \in {F(v) : v \in {e}} : TRUE

\* isinstance(v, int): a bool is an int in Python
isinstance_int(v) == v.t \in {"int", "bool"}
\* the number an int (or a bool used as an int) stands for
int_of(v) == IF v.t = "bool" THEN (IF v.b THEN 1 ELSE 0) ELSE v.i

Digits == <<"0", "1", "2", "3", "4", "5", "6", "7", "8", "9">>
IsDigitChar(c) == \E i \in 1..10 : Digits[i] = c
DigitVal(c) == (CHOOSE i \in 1..10 : Digits[i] = c) - 1

\* str.isdigit(): at least one character, all of them digits
isdigit(s) == Len(s) > 0 /\ \A i \in 1..Len(s) : IsDigitChar(s[i])

\* int(s) for a string of digits: the number its first n digits spell
RECURSIVE int_of_digits(_, _)
int_of_digits(s, n) ==
    IF n = 0 THEN 0
    ELSE 10 * int_of_digits(s, n - 1) + DigitVal(s[n])
int_of_str(s) == int_of_digits(s, Len(s))

\* str(n), "%d" % n, for n >= 0
RECURSIVE str_of_int(_)
str_of_int(n) ==
    IF n < 10 THEN <<Digits[n + 1]>>
    ELSE str_of_int(n \div 10) \o <<Digits[(n % 10) + 1]>>

\* s.split(sep) for a one-character separator
RECURSIVE split(_, _)
split(s, sep) ==
    IF \A i \in 1..Len(s) : s[i] /= sep THEN <<s>>
    ELSE Local(CHOOSE j \in 1..Len(s) :
                   s[j] = sep /\ \A k \in 1..(j - 1) : s[k] /= sep,
               LAMBDA i :
         Local(SubSeq(s, i + 1, Len(s)), LAMBDA rest :
             <<SubSeq(s, 1, i - 1)>> \o split(rest, sep)))

\* sep.join(list)
RECURSIVE join(_, _)
join(sep, l) ==
    IF Len(l) = 0 THEN <<>>
    ELSE IF Len(l) = 1 THEN l[1]
    ELSE l[1] \o sep \o join(sep, Tail(l))

UpperChars == <<"T", "R", "U", "E", "F", "A", "L", "S", "K", "M", "G", "B">>
LowerChars == <<"t", "r", "u", "e", "f", "a", "l", "s", "k", "m", "g", "b">>
lower_char(c) ==
    IF \E i \in 1..Len(UpperChars) : UpperChars[i] = c
    THEN LowerChars[CHOOSE i \in 1..Len(UpperChars) : UpperChars[i] = c]
    ELSE c
\* s.lower()
lower(s) == [i \in 1..Len(s) |-> lower_char(s[i])]

(***************************************************************************)
(* humanfriendly.parse_size(size, binary=True), as SparkMemoryType uses it.*)
(* tokenize cuts the text into runs of digits (numbers) and runs of other  *)
(* characters; the inputs here hold no blanks and no decimal point.        *)
(***************************************************************************)
RECURSIVE tokenize(_)
tokenize(s) ==
    IF Len(s) = 0 THEN <<>>
    ELSE Local(IsDigitChar(s[1]), LAMBDA d :
         Local(CHOOSE j \in 1..Len(s) :
                   /\ \A k \in 1..j : IsDigitChar(s[k]) = d
                   /\ (j < Len(s) => IsDigitChar(s[j + 1]) /= d),
               LAMBDA n :
         Local(SubSeq(s, n + 1, Len(s)), LAMBDA rest :
             <<[num |-> d, s |-> SubSeq(s, 1, n)]>> \o tokenize(rest))))

\* the binary divider of the disk size unit a normalized unit names: the
\* first unit of K, M, G whose prefix letter starts it (kib, kb, k, ...)
UnitPrefixes == <<"k", "m", "g">>
HasUnit(u) == Len(u) > 0 /\ \E i \in 1..3 : UnitPrefixes[i] = u[1]
unit_divider_decimal(u) == 1000 ^ (CHOOSE i \in 1..3 : UnitPrefixes[i] = u[1])
unit_divider(u) == 1024 ^ (CHOOSE i \in 1..3 : UnitPrefixes[i] = u[1])

ValOk(v) == [ok |-> TRUE, val |-> v, err |-> ""]
ValErr(e) == [ok |-> FALSE, val |-> NoneV, err |-> e]

parse_size(size) ==
    Local(tokenize(size), LAMBDA tokens :
    Local(IF Len(tokens) = 2 /\ ~tokens[2].num THEN lower(tokens[2].s)
          ELSE <<>>,
          LAMBDA normalized_unit :
        IF Len(tokens) > 0 /\ tokens[1].num
        THEN IF Len(tokens) = 1
                  \/ (Len(normalized_unit) > 0 /\ normalized_unit[1] = "b")
             THEN ValOk(IntV(int_of_str(tokens[1].s)))
             ELSE IF HasUnit(normalized_unit)
             THEN ValOk(IntV(int_of_str(tokens[1].s)
                             * unit_divider(normalized_unit)))
             ELSE ValErr("InvalidSize")
        ELSE ValErr("InvalidSize")))

(***************************************************************************)
(* The parameter model (spark_param.py).  A parameter object is a record   *)
(* of its class and its fields.  A constructor or factory call gives       *)
(* [ok, param, err]: the new object, or the name of the exception raised.  *)
(***************************************************************************)
NoParam == [cls |-> "none", spark_name |-> "", is_range_val |-> FALSE,
            value |-> NoneV, desc |-> ""]
ParamOk(p) == [ok |-> TRUE, param |-> p, err |-> ""]
ParamErr(e) == [ok |-> FALSE, param |-> NoParam, err |-> e]

\* SparkParamType.__init__ without lines 71-72
SparkParamType_init_no_collapse(cls, spark_name, value, maybe_range, desc) ==
    IF maybe_range /\ value.t = "tuple" /\ Len(value.tup) < 2
    THEN ParamErr("IndexError")
    ELSE ParamOk([
        cls |-> cls,
        spark_name |-> spark_name,
        is_range_val |->
            maybe_range /\ value.t = "tuple" /\ value.tup[1] < value.tup[2],
        value |-> value,
        desc |-> desc])

\* SparkParamType.__init__, called by each subclass constructor
SparkParamType_init(cls, spark_name, value, maybe_range, desc) ==
    IF maybe_range /\ value.t = "tuple" /\ Len(value.tup) < 2
    THEN ParamErr("IndexError")
    ELSE ParamOk([
        cls |-> cls,
        spark_name |-> spark_name,
        is_range_val |->
            maybe_range /\ value.t = "tuple" /\ value.tup[1] < value.tup[2],
        value |->
            IF maybe_range /\ value.t = "tuple" /\ value.tup[1] = value.tup[2]
            THEN IntV(value.tup[1])
            ELSE value,
        desc |-> desc])

SparkStringType_init(name, value, desc) ==
    IF value.t /= "str" THEN ParamErr("AssertionError")
    ELSE SparkParamType_init("SparkStringType", name, value, FALSE, desc)

SparkIntType_init(name, value, desc) ==
    IF ~(isinstance_int(value) \/ value.t = "tuple")
    THEN ParamErr("AssertionError")
    ELSE SparkParamType_init("SparkIntType", name, value, TRUE, desc)

SparkMemoryType_init(name, value, desc) ==
    IF ~(isinstance_int(value) \/ value.t = "tuple")
    THEN ParamErr("AssertionError")
    ELSE SparkParamType_init("SparkMemoryType", name, value, TRUE, desc)

SparkBooleanType_init(name, value, desc) ==
    IF value.t /= "bool" THEN ParamErr("AssertionError")
    ELSE SparkParamType_init("SparkBooleanType", name, value, TRUE, desc)

\* cls(name, value, desc)
new_param(cls, name, value, desc) ==
    CASE cls = "SparkStringType" -> SparkStringType_init(name, value, desc)
      [] cls = "SparkIntType" -> SparkIntType_init(name, value, desc)
      [] cls = "SparkMemoryType" -> SparkMemoryType_init(name, value, desc)
      [] cls = "SparkBooleanType" -> SparkBooleanType_init(name, value, desc)

\* check_if_legal without the test of the sign
SparkIntType_check_if_legal_any_int(v) == isinstance_int(v)

\* SparkIntType.check_if_legal: assert isinstance(v, int) and v > 0
SparkIntType_check_if_legal(v) == isinstance_int(v) /\ int_of(v) > 0

SparkIntType_cast_from_str(str_value) ==
    IF isdigit(str_value)
    THEN IF SparkIntType_check_if_legal(IntV(int_of_str(str_value)))
         THEN ValOk(IntV(int_of_str(str_value)))
         ELSE ValErr("AssertionError")
    ELSE ValErr("SparkParamParseError")

SparkMemoryType_cast_from_str(str_value) ==
    Local(parse_size(str_value), LAMBDA size :
        IF size.ok THEN size ELSE ValErr("SparkParamParseError"))

SparkBooleanType_cast_from_str(str_value) ==
    Local(lower(str_value), LAMBDA lower_str :
        IF lower_str = <<"t", "r", "u", "e">> THEN ValOk(BoolV(TRUE))
        ELSE IF lower_str = <<"f", "a", "l", "s", "e">>
        THEN ValOk(BoolV(FALSE))
        ELSE ValErr("SparkParamParseError"))

cast_from_str(cls, str_value) ==
    CASE cls = "SparkIntType" -> SparkIntType_cast_from_str(str_value)
      [] cls = "SparkMemoryType" -> SparkMemoryType_cast_from_str(str_value)
      [] cls = "SparkBooleanType" -> SparkBooleanType_cast_from_str(str_value)
      [] cls = "SparkStringType" -> ValOk(StrV(str_value))

\* cast_range_1/2/3: the elements are cast left to right and the first
\* failure is the one raised; the result is the tuple of the casts
RECURSIVE cast_range(_, _)
cast_range(cls, range_list) ==
    IF Len(range_list) = 0 THEN ValOk(TupV(<<>>))
    ELSE Local(cast_from_str(cls, range_list[1]), LAMBDA head :
             IF ~head.ok THEN head
             ELSE Local(cast_range(cls, Tail(range_list)), LAMBDA rest :
                      IF ~rest.ok THEN rest
                      ELSE ValOk(TupV(<<int_of(head.val)>>
                                          \o rest.val.tup))))

SparkIntType_get_maybe_range_from_str(str_value) ==
    IF Len(str_value) = 0 THEN ValErr("SparkParamParseError")
    ELSE Local(split(str_value, ","), LAMBDA range_list :
             IF Len(range_list) = 1
             THEN SparkIntType_cast_from_str(range_list[1])
             ELSE IF Len(range_list) = 2
             THEN cast_range("SparkIntType", range_list)
             ELSE ValErr("SparkParamParseError"))

SparkMemoryType_get_maybe_range_from_str(str_value) ==
    IF Len(str_value) = 0 THEN ValErr("SparkParamParseError")
    ELSE Local(split(str_value, ","), LAMBDA range_list :
             IF Len(range_list) = 1
             THEN SparkMemoryType_cast_from_str(range_list[1])
             ELSE IF Len(range_list) = 2
             THEN Local(cast_range("SparkMemoryType", range_list),
                        LAMBDA range_2 :
                      IF range_2.ok
                      THEN ValOk(TupV(range_2.val.tup \o <<1>>))
                      ELSE range_2)
             ELSE IF Len(range_list) = 3
             THEN cast_range("SparkMemoryType", range_list)
             ELSE ValErr("SparkParamParseError"))

\* the value make_param_from_str hands to the constructor
parsed_value(cls, str_value) ==
    CASE cls = "SparkIntType" ->
            SparkIntType_get_maybe_range_from_str(str_value)
      [] cls = "SparkMemoryType" ->
            SparkMemoryType_get_maybe_range_from_str(str_value)
      [] cls = "SparkBooleanType" ->
            SparkBooleanType_cast_from_str(str_value)
      [] cls = "SparkStringType" -> ValOk(StrV(str_value))

\* self.make_param_from_str(str_value)
make_param_from_str(self, str_value) ==
    Local(parsed_value(self.cls, str_value), LAMBDA value :
        IF value.ok
        THEN new_param(self.cls, self.spark_name, value.val, self.desc)
        ELSE ParamErr(value.err))

\* self.make_param(value)
make_param(self, value) ==
    CASE self.cls = "SparkStringType" ->
            SparkStringType_init(self.spark_name, value, self.desc)
      [] self.cls = "SparkIntType" ->
            IF SparkIntType_check_if_legal(value)
            THEN SparkIntType_init(self.spark_name, value, self.desc)
            ELSE ParamErr("AssertionError")
      [] self.cls = "SparkMemoryType" ->
            IF SparkIntType_check_if_legal(value)
            THEN SparkMemoryType_init(self.spark_name, value, self.desc)
            ELSE ParamErr("AssertionError")
      [] self.cls = "SparkBooleanType" ->
            IF value.t = "bool"
            THEN SparkBooleanType_init(self.spark_name, value, self.desc)
            ELSE ParamErr("AssertionError")

(***************************************************************************)
(* The registry of parameters (spark_default_param.py, class SparkParam).  *)
(***************************************************************************)
NAME == SparkStringType_init("name", StrV(<<"spark_program">>),
                             "Program name").param
CLASS == SparkStringType_init("class", StrV(<<"MainClass">>),
                              "Fully qualified main class name").param
MASTER == SparkStringType_init("master", StrV(<<"local[*]">>),
                               "Spark master type: local/yarn/mesos").param
DEPLOY_MODE == SparkStringType_init("deploy-mode", StrV(<<"client">>),
                                    "Deployment mode: client/cluster").param
DRIVER_MEM == SparkMemoryType_init("driver-memory", IntV(10485760),
                                   "Amount of driver memory").param
EXECUTOR_CORES == SparkIntType_init("executor-cores", IntV(2),
                                    "Number of executor cores").param
MAX_EXECUTORS == SparkIntType_init("spark.dynamicAllocation.maxExecutors",
                                   IntV(2), "").param
PARALLELISM == SparkIntType_init("spark.default.parallelism",
                                 IntV(10), "").param
EXECUTOR_MEM == SparkMemoryType_init("executor-memory", IntV(10485760),
                                     "Amount of executor memory").param
PARTITIONS == SparkIntType_init("spark.sql.shuffle.partitions",
                                IntV(10), "").param
EVENTLOG_DIR == SparkStringType_init("spark.eventLog.dir",
                                     StrV(<<"file:///tmp/spark-events">>),
                                     "").param
DA_ENABLED == SparkBooleanType_init("spark.dynamicAllocation.enabled",
                                    BoolV(TRUE), "").param

(***************************************************************************)
(* Calls on the parameter model.  recv is the registry parameter a call is *)
(* made on (or whose class is constructed), op and arg the call.           *)
(***************************************************************************)
MaxStrLen == 4
MaxVal == 3

\* the characters the strings to parse are made of
ParamChars == {"4", "6", "0", ",", "k"}
\* further strings to parse, longer than MaxStrLen or over other characters
ParamStrCorpus == {
    <<"4", ",", "6", ",", "4">>,
    <<"4", "k", ",", "6", "k">>,
    <<"6", "k", ",", "4", "k", ",", "1", "k">>,
    <<"4", "k", ",", "8", "k", ",", "2", "k">>,
    <<"4", ";", "5">>,
    <<"4", ",", "6", ",", "4", ",", "6">>,
    <<"1", "M", "i", "B">>,
    <<"5", "1", "2", "b">>,
    <<"4", "x">>,
    <<"t", "r", "u", "e">>,
    <<"T", "r", "u", "e">>,
    <<"F", "A", "L", "S", "E">>,
    <<"y", "e", "s">>,
    <<"test_value">> }
ParamStrs ==
    (UNION {[1..n -> ParamChars] : n \in 0..MaxStrLen}) \cup ParamStrCorpus

\* the values handed to a constructor or to make_param
ParamVals ==
    {IntV(n) : n \in 0..MaxVal}
        \cup {BoolV(x) : x \in BOOLEAN}
        \cup {TupV(<<a>>) : a \in 1..MaxVal}
        \cup {TupV(<<a, b>>) : a \in 1..MaxVal, b \in 1..MaxVal}
        \cup {TupV(<<a, b, c>>) : a \in 1..MaxVal, b \in 1..MaxVal, c \in 1..2}
        \cup {StrV(<<"test_value">>), NoneV}

Receivers == {NAME, DRIVER_MEM, EXECUTOR_CORES, DA_ENABLED}

\* cls(name, arg, desc), as the registry's mk_string, mk_int, mk_memory and
\* mk_boolean call it
MkParam ==
    /\ op = "mk"
    /\ pout = <<>>
    /\ pout' = <<new_param(recv.cls, recv.spark_name, arg, recv.desc)>>
    /\ UNCHANGED <<recv, op, arg>>
    /\ UNCHANGED notParamVars

\* recv.make_param_from_str(arg)
MakeParamFromStr ==
    /\ op = "make_param_from_str"
    /\ pout = <<>>
    /\ pout' = <<make_param_from_str(recv, arg.s)>>
    /\ UNCHANGED <<recv, op, arg>>
    /\ UNCHANGED notParamVars

\* recv.make_param(arg)
MakeParam ==
    /\ op = "make_param"
    /\ pout = <<>>
    /\ pout' = <<make_param(recv, arg)>>
    /\ UNCHANGED <<recv, op, arg>>
    /\ UNCHANGED notParamVars

ParamNext == MkParam \/ MakeParamFromStr \/ MakeParam

(***************************************************************************)
(* The command synthesizer (spark_cmd.py).  A dict is a function from its  *)
(* keys; items() walks the keys in the dict's iteration order, which       *)
(* Python leaves unspecified: key_order picks one of two orders.           *)
(***************************************************************************)
EmptyDict == <<>>
dict_set(d, k, v) == [x \in (DOMAIN d) \cup {k} |-> IF x = k THEN v ELSE d[x]]
\* dict(ChainMap({}, a, b)): the keys of both, a's entry where both have one
ChainMap(a, b) ==
    [x \in (DOMAIN a) \cup (DOMAIN b) |-> IF x \in DOMAIN a THEN a[x] ELSE b[x]]

KeyListing == <<
    "name", "class", "master", "deploy_mode", "deploy-mode",
    "driver_memory", "driver-memory", "executor_memory", "executor-memory",
    "executor_cores", "executor-cores", "max_executors",
    "spark.dynamicAllocation.maxExecutors", "spark_parallelism",
    "spark.default.parallelism", "spark_partitions",
    "spark.sql.shuffle.partitions", "spark.dynamicAllocation.enabled",
    "spark.eventLog.dir", "path" >>
Reverse(s) == [i \in 1..Len(s) |-> s[Len(s) + 1 - i]]
InDict(d, k) == k \in DOMAIN d
\* the keys of d.items(), in iteration order
dict_keys(d, order) ==
    LET listing == IF order = "asc" THEN KeyListing ELSE Reverse(KeyListing)
        Held(k) == InDict(d, k)
    IN SelectSeq(listing, Held)

\* str(v)
py_str(v) ==
    CASE v.t = "int" -> str_of_int(v.i)
      [] v.t = "bool" -> IF v.b THEN <<"T", "r", "u", "e">>
                         ELSE <<"F", "a", "l", "s", "e">>
      [] v.t = "str" -> v.s
      [] v.t = "tuple" ->
            <<"(">> \o join(<<",", " ">>,
                            [i \in 1..Len(v.tup) |-> str_of_int(v.tup[i])])
                    \o <<")">>
      [] v.t = "NoneType" -> <<"N", "o", "n", "e">>

(***************************************************************************)
(* Util.format_size(num_bytes, units).  After i divisions num is the float *)
(* num_bytes / 1024^i; the tests on it are made on whole numbers:          *)
(*   num < 1024                       iff  floor(num) < 1024               *)
(*   num != int(num) and num <= 9999  iff  1024^i does not divide          *)
(*                                         num_bytes and floor(num) < 9999 *)
(* and "%d" % num is floor(num).                                           *)
(***************************************************************************)
SizeUnits == <<"b", "k", "m", "g", "t">>
RECURSIVE format_size_loop(_, _, _)
format_size_loop(num_bytes, units, i) ==
    IF i > Len(SizeUnits)
    THEN str_of_int(num_bytes \div (1024 ^ (i - 1))) \o <<"p">>
    ELSE LET div == 1024 ^ (i - 1)
         IN IF \/ <<SizeUnits[i]>> = units
               \/ num_bytes \div div < 1024
               \/ (num_bytes % div /= 0 /\ num_bytes \div div < 9999)
            THEN str_of_int(num_bytes \div div) \o <<SizeUnits[i]>>
            ELSE format_size_loop(num_bytes, units, i + 1)

format_size(num_bytes, units) ==
    IF ~isinstance_int(num_bytes) THEN ValErr("InvalidSize")
    ELSE ValOk(StrV(format_size_loop(int_of(num_bytes), units, 1)))

CMD_SEPARATOR == <<" ">>
CONF_SEPARATOR == <<"=">>
SPARK_SUBMIT_PATH == <<"spark-submit">>

\* the flag registries of spark_default_param.py
FLAG_TO_DIRECT_PARAM ==
    [f \in {"name", "class", "master", "deploy_mode", "driver_memory",
            "executor_memory", "executor_cores"} |->
        CASE f = "name" -> NAME
          [] f = "class" -> CLASS
          [] f = "master" -> MASTER
          [] f = "deploy_mode" -> DEPLOY_MODE
          [] f = "driver_memory" -> DRIVER_MEM
          [] f = "executor_memory" -> EXECUTOR_MEM
          [] f = "executor_cores" -> EXECUTOR_CORES]
FLAG_TO_CONF_PARAM ==
    [f \in {"max_executors", "spark_parallelism", "spark_partitions"} |->
        CASE f = "max_executors" -> MAX_EXECUTORS
          [] f = "spark_parallelism" -> PARALLELISM
          [] f = "spark_partitions" -> PARTITIONS]

ParamClasses == {"SparkStringType", "SparkIntType", "SparkMemoryType",
                 "SparkBooleanType"}
\* isinstance(obj, SparkParamType)
is_param(obj) == obj.cls \in ParamClasses

\* SparkParamType.get_value_map
get_value_map(a_dict) == [k \in DOMAIN a_dict |-> a_dict[k].value]

MergeOk(d, c) == [ok |-> TRUE, direct |-> d, conf |-> c, err |-> ""]
MergeErr(e) == [ok |-> FALSE, direct |-> EmptyDict, conf |-> EmptyDict, err |-> e]

\* input_dict = dict(ChainMap({}, tuner_cfg_dict, arg_dict))
input_dict_reversed(a_dict, t_dict) == ChainMap(a_dict, t_dict)
input_dict(a_dict, t_dict) == ChainMap(t_dict, a_dict)

\* param_val of one entry: the value, formatted if the parameter is a memory
merge_value_unformatted(param) == ValOk(param.value)
merge_value(param) ==
    IF param.cls = "SparkMemoryType" THEN format_size(param.value, <<"k">>)
    ELSE ValOk(param.value)

\* the kind of a parameter by its own Spark name
IsDirectName(n) ==
    \E f \in DOMAIN FLAG_TO_DIRECT_PARAM :
        FLAG_TO_DIRECT_PARAM[f].spark_name = n
IsConfName(n) ==
    \E f \in DOMAIN FLAG_TO_CONF_PARAM : FLAG_TO_CONF_PARAM[f].spark_name = n

\* one turn of a loop that sorts the entries by the parameter's Spark name
merge_entry_by_name(acc, flag, param) ==
    IF ~acc.ok THEN acc
    ELSE IF ~is_param(param) THEN MergeErr("AttributeError")
    ELSE IF IsDirectName(param.spark_name)
    THEN [acc EXCEPT !.direct = dict_set(@, param.spark_name, param.value)]
    ELSE IF IsConfName(param.spark_name)
    THEN [acc EXCEPT !.conf = dict_set(@, param.spark_name, param.value)]
    ELSE acc

\* one turn of the loop over input_dict.items()
merge_entry(acc, flag, param) ==
    IF ~acc.ok THEN acc
    ELSE IF ~is_param(param) THEN MergeErr("AttributeError")
    ELSE Local(merge_value(param), LAMBDA param_val :
        IF ~param_val.ok THEN MergeErr(param_val.err)
        ELSE IF InDict(FLAG_TO_DIRECT_PARAM, flag)
        THEN [acc EXCEPT !.direct =
                  dict_set(@, param.spark_name, param_val.val)]
        ELSE IF InDict(FLAG_TO_CONF_PARAM, flag)
        THEN [acc EXCEPT !.conf =
                  dict_set(@, param.spark_name, param_val.val)]
        ELSE acc)

RECURSIVE merge_inputs(_, _, _)
merge_inputs(keys, in_dict, acc) ==
    IF Len(keys) = 0 THEN acc
    ELSE Local(merge_entry(acc, keys[1], in_dict[keys[1]]),
               LAMBDA next_acc : merge_inputs(Tail(keys), in_dict, next_acc))

\* self.merge_params(arg_dict, tuner_cfg_dict)
merge_params(self, a_dict, t_dict, order) ==
    Local(input_dict(a_dict, t_dict), LAMBDA in_dict :
    Local(dict_keys(in_dict, order), LAMBDA keys :
    Local(merge_inputs(keys, in_dict, MergeOk(EmptyDict, EmptyDict)),
          LAMBDA inputs :
        IF ~inputs.ok THEN inputs
        ELSE MergeOk(
                 ChainMap(inputs.direct,
                          get_value_map(self.direct_param_default)),
                 ChainMap(inputs.conf,
                          get_value_map(self.conf_defaults))))))

make_spark_direct_flag(flag_param) == <<"--", flag_param>>
make_spark_conf_flag(flag_param) == <<"--conf", " ", flag_param>>

\* value if isinstance(value, str) else str(value).lower()
value_str(value) == IF value.t = "str" THEN value.s ELSE lower(py_str(value))

RECURSIVE subcmd_list(_, _, _)
subcmd_list(keys, param_dict, is_direct) ==
    IF Len(keys) = 0 THEN <<>>
    ELSE (IF is_direct
          THEN <<make_spark_direct_flag(keys[1]),
                 value_str(param_dict[keys[1]])>>
          ELSE <<join(CONF_SEPARATOR, <<make_spark_conf_flag(keys[1]),
                                        value_str(param_dict[keys[1]])>>)>>)
         \o subcmd_list(Tail(keys), param_dict, is_direct)

make_subcmd(param_dict, is_direct, order) ==
    Local(dict_keys(param_dict, order), LAMBDA keys :
    Local(subcmd_list(keys, param_dict, is_direct), LAMBDA list :
        join(CMD_SEPARATOR, list)))

CmdOk(s) == [ok |-> TRUE, s |-> s, err |-> ""]
CmdErr(e) == [ok |-> FALSE, s |-> <<>>, err |-> e]

\* the list make_cmd joins
cmd_parts_conf_first(direct_sub, conf_sub, fixed, jar, prog) ==
    <<SPARK_SUBMIT_PATH, conf_sub, direct_sub, fixed, jar, prog>>
cmd_parts(direct_sub, conf_sub, fixed, jar, prog) ==
    <<SPARK_SUBMIT_PATH, direct_sub, conf_sub, fixed, jar, prog>>

\* self.make_cmd(jar_path, program_conf, arg_dict, tuner_cfg_dict)
make_cmd(self, jar, prog, a_dict, t_dict, order) ==
    Local(merge_params(self, a_dict, t_dict, order), LAMBDA m :
        IF ~m.ok THEN CmdErr(m.err)
        ELSE Local(make_subcmd(m.direct, TRUE, order), LAMBDA direct_sub :
             Local(make_subcmd(m.conf, FALSE, order), LAMBDA conf_sub :
             Local(cmd_parts(direct_sub, conf_sub, self.fixed_param,
                             jar, prog), LAMBDA parts :
                 CmdOk(join(CMD_SEPARATOR, parts))))))

\* SparkSubmitCmd(direct_param_default, conf_defaults, fixed_param)
SparkSubmitCmd(direct_default, conf_default, fixed) ==
    [direct_param_default |-> direct_default,
     conf_defaults |-> conf_default,
     fixed_param |-> fixed]

(***************************************************************************)
(* Calls on the command synthesizer.  The parameter objects in the dicts   *)
(* are made the way the program makes them: from the registry parameter of *)
(* the flag, by make_param_from_str (arguments, defaults) or make_param    *)
(* (search values).                                                        *)
(***************************************************************************)
\* an object that is not a parameter: a plain str or int held in a dict
PlainObject(v) == [cls |-> v.t, spark_name |-> "", is_range_val |-> FALSE,
                   value |-> v, desc |-> ""]
Absent == NoParam
\* the dict holding the entries that are not Absent
dict_of(entries) ==
    LET present == {i \in 1..Len(entries) : entries[i].obj /= Absent}
    IN [k \in {entries[i].key : i \in present} |->
           entries[CHOOSE i \in present : entries[i].key = k].obj]
Entry(k, o) == [key |-> k, obj |-> o]

ArgDicts ==
    {dict_of(<<Entry("name", n), Entry("driver_memory", m),
               Entry("max_executors", e), Entry("executor-cores", c),
               Entry("path", p)>>) :
        n \in {Absent, make_param_from_str(NAME, <<"test_value">>).param},
        m \in {Absent,
               make_param_from_str(DRIVER_MEM, <<"5", "1", "2">>).param,
               make_param_from_str(DRIVER_MEM,
                                   <<"1", "2", "0", "0", "0">>).param,
               make_param_from_str(DRIVER_MEM,
                                   <<"1", "k", ",", "4", "k">>).param},
        e \in {Absent,
               make_param_from_str(MAX_EXECUTORS, <<"3">>).param,
               make_param_from_str(MAX_EXECUTORS, <<"2", ",", "4">>).param},
        c \in {Absent, make_param_from_str(EXECUTOR_CORES, <<"4">>).param},
        p \in {Absent, PlainObject(StrV(<<"path/to">>))}}

TunerCfgDicts ==
    {dict_of(<<Entry("driver_memory", m), Entry("max_executors", e),
               Entry("executor-cores", c)>>) :
        m \in {Absent, make_param(DRIVER_MEM, IntV(512)).param,
               make_param(DRIVER_MEM, IntV(2048)).param},
        e \in {Absent, make_param(MAX_EXECUTORS, IntV(23)).param,
               PlainObject(IntV(23))},
        c \in {Absent, make_param(EXECUTOR_CORES, IntV(4)).param}}

DirectDefaults ==
    {EmptyDict,
     dict_of(<<Entry("executor-cores",
                     make_param_from_str(EXECUTOR_CORES,
                                         <<"1", "1", "1">>).param),
               Entry("driver-memory",
                     make_param_from_str(DRIVER_MEM,
                                         <<"1", "2", "0", "0", "0">>).param)>>)}
ConfDefaults ==
    {EmptyDict,
     dict_of(<<Entry("spark.dynamicAllocation.maxExecutors",
                     make_param_from_str(MAX_EXECUTORS, <<"2", "3">>).param),
               Entry("spark.eventLog.dir",
                     make_param_from_str(
                         EVENTLOG_DIR, <<"file:///tmp/spark-events">>).param),
               Entry("spark.dynamicAllocation.enabled", DA_ENABLED)>>)}
FixedParams == {<<>>, <<"--verbose">>}
ProgramConfs == {<<>>, <<"10">>}

REQUIRED_FLAGS == {"name", "class", "master", "deploy_mode"}

\* make_required_args_dict of the tests: each required flag with the
\* parameter its registry entry makes of "test_value"
RequiredArgsDict ==
    [f \in REQUIRED_FLAGS |->
        make_param_from_str(FLAG_TO_DIRECT_PARAM[f], <<"test_value">>).param]

\* dicts that hold, under a flag, a parameter made by the registry entry of
\* any flag: merge_params is handed the flag and the object, and nothing
\* ties the one to the other
AnyFlagParams ==
    {Absent,
     make_param_from_str(NAME, <<"test_value">>).param,
     make_param_from_str(EXECUTOR_CORES, <<"4">>).param,
     make_param_from_str(DRIVER_MEM, <<"4", "k">>).param,
     make_param_from_str(MAX_EXECUTORS, <<"3">>).param}
AnyFlagArgDicts ==
    {RequiredArgsDict}
        \cup {dict_of(<<Entry("name", a), Entry("executor_cores", b),
                        Entry("max_executors", c),
                        Entry("spark_partitions", e)>>) :
                  a \in AnyFlagParams, b \in AnyFlagParams,
                  c \in AnyFlagParams, e \in AnyFlagParams}
AnyFlagTunerCfgDicts ==
    {EmptyDict,
     dict_of(<<Entry("executor_cores",
                     make_param(MAX_EXECUTORS, IntV(5)).param)>>),
     dict_of(<<Entry("max_executors",
                     make_param(EXECUTOR_CORES, IntV(7)).param)>>)}

\* self.merge_params(arg_dict, tuner_cfg_dict)
MergeParams ==
    /\ merged = <<>>
    /\ merged' = <<merge_params(spark_submit, arg_dict, tuner_cfg_dict,
                                key_order)>>
    /\ UNCHANGED <<spark_submit, arg_dict, tuner_cfg_dict, jar_path,
                   program_conf, key_order, cmd>>
    /\ UNCHANGED notCmdVars

\* self.make_cmd(jar_path, program_conf, arg_dict, tuner_cfg_dict)
MakeCmd ==
    /\ cmd = <<>>
    /\ cmd' = <<make_cmd(spark_submit, jar_path, program_conf, arg_dict,
                         tuner_cfg_dict, key_order)>>
    /\ UNCHANGED <<spark_submit, arg_dict, tuner_cfg_dict, jar_path,
                   program_conf, key_order, merged>>
    /\ UNCHANGED notCmdVars

CmdNext == MergeParams \/ MakeCmd

(***************************************************************************)
(* ScaledIntegerParameter (tuner_cfg.py).  A Python number is an int or a  *)
(* float; both carry their value as an exact fraction, so that the int     *)
(* division of Python 2 (floor) and the float division can be told apart.  *)
(* Rounding of float results is not modelled: the quotients here differ    *)
(* from the nearest half-integer by far more than a float's precision.     *)
(***************************************************************************)
PyInt(n) == [ty |-> "int", q |-> Fin(n)]
PyFloat(r) == [ty |-> "float", q |-> r]

py_abs(n) == IF n < 0 THEN -n ELSE n

RECURSIVE Gcd(_, _)
Gcd(a, b) == IF b = 0 THEN a ELSE Gcd(b, a % b)

\* the float n / float(d), d /= 0, in lowest terms with a positive denominator
fdiv(n, d) ==
    Local(Gcd(py_abs(n), py_abs(d)), LAMBDA g :
        IF d < 0 THEN Rat((0 - n) \div g, (0 - d) \div g)
        ELSE Rat(n \div g, d \div g))

\* round(x) of Python 2: to the nearest integer, halves away from zero
py_round(x) ==
    IF x.n >= 0 THEN (2 * x.n + x.d) \div (2 * x.d)
    ELSE 0 - ((2 * (0 - x.n) + x.d) \div (2 * x.d))

\* int(x) of a float: truncation toward zero
int_of_float(x) ==
    IF x.n >= 0 THEN x.n \div x.d ELSE 0 - ((0 - x.n) \div x.d)

SCALING == 1000

TunerParamOk(p) == [ok |-> TRUE, param |-> p, err |-> ""]
TunerParamErr(e) ==
    [ok |-> FALSE, param |-> [min_value |-> 0, max_value |-> 0, scaling |-> 0],
     err |-> e]

\* opentuner's NumericParameter.__init__ without its assertion
NumericParameter_init_unchecked(min_v, max_v) ==
    TunerParamOk([min_value |-> min_v, max_value |-> max_v, scaling |-> 0])

\* opentuner's NumericParameter.__init__, which IntegerParameter.__init__
\* passes on to: assert min_value <= max_value, then the two fields are set
NumericParameter_init(min_v, max_v) ==
    IF ~(min_v <= max_v) THEN TunerParamErr("AssertionError")
    ELSE TunerParamOk([min_value |-> min_v, max_value |-> max_v,
                       scaling |-> 0])

\* ScaledIntegerParameter.__init__
ScaledIntegerParameter_init(min_v, max_v, scale) ==
    IF ~(0 < py_abs(scale) /\ py_abs(scale) <= py_abs(min_v))
    THEN TunerParamErr("AssertionError")
    ELSE Local(NumericParameter_init(min_v, max_v), LAMBDA base :
             IF ~base.ok THEN base
             ELSE TunerParamOk([base.param EXCEPT !.scaling = scale]))

\* self._scale(v), v an int
scale(self, v) == fdiv((v - self.min_value) * SCALING, self.scaling)

\* _unscale without the offset
unscale_no_offset(self, v) ==
    IF v.ty = "int"
    THEN (v.q.n * self.scaling) \div SCALING
    ELSE py_round(fdiv(v.q.n * self.scaling, v.q.d * SCALING))

\* self._unscale(v): with an int v the division by SCALING is the floor
\* division of Python 2 and round() has nothing left to round
unscale(self, v) ==
    IF v.ty = "int"
    THEN (v.q.n * self.scaling) \div SCALING + self.min_value
    ELSE py_round(fdiv(v.q.n * self.scaling
                           + self.min_value * v.q.d * SCALING,
                       v.q.d * SCALING))

\* self.legal_range(config); NumericParameter.legal_range gives
\* (min_value, max_value)
legal_range(self) ==
    <<int_of_float(scale(self, self.min_value)),
      int_of_float(scale(self, self.max_value))>>

MaxMin == 3
MaxSpan == 2
MaxScaling == 3

\* the parameters constructed: a grid around zero, and the configuration of
\* the end-to-end example
ScaledConfigs ==
    {<<a, b, c>> : a \in (0 - MaxMin)..MaxMin,
                   b \in (0 - MaxMin)..(MaxMin + MaxSpan),
                   c \in (0 - MaxScaling)..MaxScaling}
        \cup {<<1000, 5000, 500>>, <<3, 1000, 20>>, <<30, 100, 1000>>}
ScaledValues == ((0 - MaxMin)..(MaxMin + MaxSpan)) \cup {1000, 2000, 5000}

\* tuner_param = ScaledIntegerParameter(flag, min_value, max_value, scaling)
NewScaledIntegerParameter ==
    /\ tuner_param = <<>>
    /\ tuner_param' =
           <<ScaledIntegerParameter_init(min_value, max_value, scaling)>>
    /\ UNCHANGED <<min_value, max_value, scaling, sval, scaled, unscaled,
                   lrange, lrange_unscaled>>
    /\ UNCHANGED notScaledVars

\* tuner_param._scale(sval)
Scale ==
    /\ tuner_param /= <<>> /\ tuner_param[1].ok
    /\ scaled = <<>>
    /\ scaled' = <<scale(tuner_param[1].param, sval)>>
    /\ UNCHANGED <<min_value, max_value, scaling, sval, tuner_param, unscaled,
                   lrange, lrange_unscaled>>
    /\ UNCHANGED notScaledVars

\* tuner_param._unscale(x) for the float x that _scale returned
Unscale ==
    /\ scaled /= <<>>
    /\ unscaled = <<>>
    /\ unscaled' = <<unscale(tuner_param[1].param, PyFloat(scaled[1]))>>
    /\ UNCHANGED <<min_value, max_value, scaling, sval, tuner_param, scaled,
                   lrange, lrange_unscaled>>
    /\ UNCHANGED notScaledVars

\* tuner_param.legal_range(None)
LegalRange ==
    /\ tuner_param /= <<>> /\ tuner_param[1].ok
    /\ lrange = <<>>
    /\ lrange' = legal_range(tuner_param[1].param)
    /\ UNCHANGED <<min_value, max_value, scaling, sval, tuner_param, scaled,
                   unscaled, lrange_unscaled>>
    /\ UNCHANGED notScaledVars

\* tuner_param._unscale(legal_range[i]): an int argument
UnscaleBound ==
    /\ lrange /= <<>>
    /\ \E i \in 1..2 :
        /\ lrange_unscaled[i] = <<>>
        /\ lrange_unscaled' =
               [lrange_unscaled EXCEPT
                    ![i] = <<unscale(tuner_param[1].param, PyInt(lrange[i]))>>]
    /\ UNCHANGED <<min_value, max_value, scaling, sval, tuner_param, scaled,
                   unscaled, lrange>>
    /\ UNCHANGED notScaledVars

ScaledNext ==
    NewScaledIntegerParameter \/ Scale \/ Unscale \/ LegalRange
        \/ UnscaleBound

(***************************************************************************)
(* Formatting a byte count and parsing the text again: Util.format_size,   *)
(* then SparkMemoryType.cast_from_str, the parser the parameters use.      *)
(***************************************************************************)
MaxBytes == 2100

\* the byte counts formatted: every small one, and some large ones (whole
\* and fractional numbers of kibibytes, mebibytes and gibibytes)
ByteCounts ==
    (0..MaxBytes) \cup
        {10240, 1024 * 1024, 22 * 1024 * 1024, 4320133, 9999 * 1024,
         10239999, 1536 * 1024 * 1024, 1024 * 1024 * 1024}
UnitArgs == {<<>>, <<"k">>, <<"m">>}

\* Util.format_size(nbytes, unit_arg)
FormatSize ==
    /\ formatted = <<>>
    /\ formatted' = <<format_size(IntV(nbytes), unit_arg)>>
    /\ UNCHANGED <<nbytes, unit_arg, parsed>>
    /\ UNCHANGED notSizeVars

\* SparkMemoryType.cast_from_str(text) for the text format_size returned
ParseFormatted ==
    /\ formatted /= <<>> /\ formatted[1].ok
    /\ parsed = <<>>
    /\ parsed' = <<SparkMemoryType_cast_from_str(formatted[1].val.s)>>
    /\ UNCHANGED <<nbytes, unit_arg, formatted>>
    /\ UNCHANGED notSizeVars

SizeNext == FormatSize \/ ParseFormatted

(***************************************************************************)
(* Objects and their identity.  The parameter objects live in heap and the *)
(* dict objects in dheap, each under its address.  A dict handed to the    *)
(* synthesizer maps a key to the address of a parameter object.  The dicts *)
(* at the first four addresses are the arg_dict and the tuner_cfg_dict     *)
(* given to merge_params and make_cmd, and the direct_param_default and    *)
(* conf_defaults the SparkSubmitCmd holds.                                 *)
(***************************************************************************)
MaxFrameCalls == 3

ArgDictRef == 1
TunerCfgDictRef == 2
DirectDefaultRef == 3
ConfDefaultsRef == 4

\* the dict as the code reads it: each key with the object at its address
deref(h, d) == [k \in DOMAIN d |-> h[d[k]]]

\* a factory that assigns the fields of the receiver and returns it
new_object_in_self(h, self_ref, made) ==
    IF made.ok THEN [h EXCEPT ![self_ref] = made.param] ELSE h

\* cls(self.spark_name, value, self.desc): the constructor runs on a new
\* object; nothing is allocated when the call raises before it
new_object(h, self_ref, made) ==
    IF made.ok THEN Append(h, made.param) ELSE h

\* the dicts after merge_params: the loop assigns into the two dicts made
\* at lines 87-88, which die with the call, and dict() builds the two
\* dicts returned
returned_dicts(dh, m) ==
    IF m.ok THEN dh \o <<m.direct, m.conf>> ELSE dh

\* what a call returned: the address of a new parameter, the addresses of
\* two dicts, a command string, or nothing because it raised
RetNone == [kind |-> "none", refs |-> <<>>]
RetRaised == [kind |-> "raised", refs |-> <<>>]
RetParam(h) == [kind |-> "param", refs |-> <<Len(h)>>]
RetDicts(dh) == [kind |-> "dicts", refs |-> <<Len(dh) - 1, Len(dh)>>]
RetCmd == [kind |-> "cmd", refs |-> <<>>]

FrameStrs == {<<"4">>, <<"4", ",", "6">>, <<"1", "k">>, <<>>}
FrameVals == {IntV(2), IntV(0)}
FrameRegistry == <<DRIVER_MEM, EXECUTOR_CORES, MAX_EXECUTORS>>
FrameArgDicts ==
    {EmptyDict, dict_set(dict_set(EmptyDict, "driver_memory", 1),
                         "max_executors", 3)}
FrameTunerCfgDicts == {EmptyDict, dict_set(EmptyDict, "executor_cores", 2)}
FrameDirectDefaults == {EmptyDict, dict_set(EmptyDict, "executor-cores", 2)}
FrameConfDefaults ==
    {EmptyDict,
     dict_set(EmptyDict, "spark.dynamicAllocation.maxExecutors", 3)}

\* the SparkSubmitCmd whose default dicts are the ones in dheap
frame_submit ==
    SparkSubmitCmd(deref(heap, dheap[DirectDefaultRef]),
                   deref(heap, dheap[ConfDefaultsRef]), <<>>)

\* heap[r].make_param_from_str(str_value)
FrameMakeParamFromStr ==
    /\ frame_calls < MaxFrameCalls
    /\ \E r \in 1..Len(heap) : \E str_value \in FrameStrs :
        /\ heap' = new_object(heap, r, make_param_from_str(heap[r], str_value))
        /\ ret' = IF make_param_from_str(heap[r], str_value).ok
                  THEN RetParam(heap') ELSE RetRaised
    /\ frame_calls' = frame_calls + 1
    /\ UNCHANGED dheap
    /\ UNCHANGED notFrameVars

\* heap[r].make_param(value)
FrameMakeParam ==
    /\ frame_calls < MaxFrameCalls
    /\ \E r \in 1..Len(heap) : \E value \in FrameVals :
        /\ heap' = new_object(heap, r, make_param(heap[r], value))
        /\ ret' = IF make_param(heap[r], value).ok
                  THEN RetParam(heap') ELSE RetRaised
    /\ frame_calls' = frame_calls + 1
    /\ UNCHANGED dheap
    /\ UNCHANGED notFrameVars

\* spark_submit.merge_params(arg_dict, tuner_cfg_dict)
FrameMergeParams ==
    /\ frame_calls < MaxFrameCalls
    /\ \E order \in {"asc", "desc"} :
        /\ dheap' = returned_dicts(dheap,
               merge_params(frame_submit, deref(heap, dheap[ArgDictRef]),
                            deref(heap, dheap[TunerCfgDictRef]), order))
        /\ ret' = IF dheap' /= dheap THEN RetDicts(dheap') ELSE RetRaised
    /\ frame_calls' = frame_calls + 1
    /\ UNCHANGED heap
    /\ UNCHANGED notFrameVars

\* spark_submit.make_cmd(jar_path, program_conf, arg_dict, tuner_cfg_dict):
\* merge_params, then make_subcmd on the two dicts it returned
FrameMakeCmd ==
    /\ frame_calls < MaxFrameCalls
    /\ \E order \in {"asc", "desc"} :
        /\ dheap' = returned_dicts(dheap,
               merge_params(frame_submit, deref(heap, dheap[ArgDictRef]),
                            deref(heap, dheap[TunerCfgDictRef]), order))
        /\ ret' = IF make_cmd(frame_submit, <<"path/to">>, <<>>,
                              deref(heap, dheap[ArgDictRef]),
                              deref(heap, dheap[TunerCfgDictRef]), order).ok
                  THEN RetCmd ELSE RetRaised
    /\ frame_calls' = frame_calls + 1
    /\ UNCHANGED heap
    /\ UNCHANGED notFrameVars

FrameNext ==
    FrameMakeParamFromStr \/ FrameMakeParam \/ FrameMergeParams
        \/ FrameMakeCmd

(***************************************************************************)
(* The tuner (spark_tuner.py, SparkConfigTuner).  The search engine calls  *)
(* manipulator() once and then run() for one candidate configuration after *)
(* the other, on one thread.  call_program is summarised here by what it   *)
(* gives when called without a limit, as run calls it: a result whose      *)
(* returncode is the exit status of the command, or an exception.          *)
(***************************************************************************)
MaxRuns == 2

\* the default filter_lambda of get_param_map, and the one of __init__
accept_all(p) == TRUE
is_range(p) == p.is_range_val

\* SparkParamType.get_param_map(param_dict, filter_lambda)
get_param_map(p_dict, filter_lambda(_)) ==
    LET kept == {k \in DOMAIN p_dict :
                     is_param(p_dict[k]) /\ filter_lambda(p_dict[k])}
    IN IF kept = {} THEN EmptyDict ELSE [k \in kept |-> p_dict[k]]

\* SparkNumericType.get_range_start, get_range_end; the value of a ranged
\* parameter is a tuple
get_range_start(self) ==
    IF self.is_range_val THEN self.value.tup[1] ELSE int_of(self.value)
get_range_end(self) ==
    IF self.is_range_val THEN self.value.tup[2] ELSE int_of(self.value)
\* SparkMemoryType.get_scale
get_scale(self) == IF self.value.t = "tuple" THEN self.value.tup[3] ELSE 1

\* the tuner_param manipulator() builds for one ranged parameter
SearchDim(kind, made) ==
    [ok |-> made.ok, kind |-> kind, param |-> made.param, err |-> made.err]
make_tuner_param(param) ==
    CASE param.cls = "SparkIntType" ->
            SearchDim("IntegerParameter",
                      NumericParameter_init(get_range_start(param),
                                            get_range_end(param)))
      [] param.cls = "SparkMemoryType" ->
            SearchDim("ScaledIntegerParameter",
                      ScaledIntegerParameter_init(get_range_start(param),
                                                  get_range_end(param),
                                                  get_scale(param)))
      [] param.cls = "SparkBooleanType" ->
            SearchDim("BooleanParameter", TunerParamOk(
                [min_value |-> 0, max_value |-> 1, scaling |-> 0]))
      [] OTHER ->
            SearchDim("none", TunerParamErr("SparkTunerConfigError"))

\* manipulator(): the parameters added, by flag, or the first exception
manipulator(ranged) ==
    LET dims == [flag \in DOMAIN ranged |-> make_tuner_param(ranged[flag])]
        keys == dict_keys(ranged, "asc")
        failed == {i \in 1..Len(keys) : ~dims[keys[i]].ok}
    IN IF failed = {}
       THEN [ok |-> TRUE, dims |-> dims, err |-> ""]
       ELSE [ok |-> FALSE, dims |-> EmptyDict,
             err |-> dims[keys[CHOOSE i \in failed :
                                   \A j \in failed : i <= j]].err]

\* the values the search engine may assign to a dimension: the integers of
\* an IntegerParameter's range, _unscale of the ends and the middle of a
\* ScaledIntegerParameter's legal_range, and the two booleans
search_values(dim) ==
    CASE dim.kind = "IntegerParameter" ->
            {IntV(n) : n \in dim.param.min_value..dim.param.max_value}
      [] dim.kind = "ScaledIntegerParameter" ->
            Local(legal_range(dim.param), LAMBDA lr :
                {IntV(unscale(dim.param, PyInt(n))) :
                     n \in {lr[1], (lr[1] + lr[2]) \div 2, lr[2]}})
      [] dim.kind = "BooleanParameter" -> {BoolV(x) : x \in BOOLEAN}

\* the configurations of a search space
Configurations(dims) ==
    IF DOMAIN dims = {} THEN {EmptyDict}
    ELSE {c \in [DOMAIN dims ->
                    UNION {search_values(dims[k]) : k \in DOMAIN dims}] :
              \A k \in DOMAIN dims : c[k] \in search_values(dims[k])}

\* tuner_cfg = {flag: self.param_dict[flag].make_param(cfg_data[flag])
\*              for flag in cfg_data}
make_tuner_cfg(p_dict, data) ==
    LET made == [flag \in DOMAIN data |->
                     make_param(p_dict[flag], data[flag])]
        failed == {flag \in DOMAIN data : ~made[flag].ok}
    IN IF failed /= {}
       THEN [ok |-> FALSE, dict |-> EmptyDict, err |-> "AssertionError"]
       ELSE [ok |-> TRUE, err |-> "",
             dict |-> IF DOMAIN data = {} THEN EmptyDict
                      ELSE [flag \in DOMAIN data |-> made[flag].param]]

\* the assert of run passing whatever the return code
returncode_ok_unchecked(result) == TRUE

\* assert run_result[MeasurementInterfaceExt.RETURN_CODE] == 0
returncode_ok(result) == result.returncode = 0

\* what call_program(run_cmd) gives: the result dict, or an exception
CallProgramOutcomes ==
    {[raised |-> FALSE, returncode |-> rc, stderr |-> e, time |-> Fin(t)] :
         rc \in {0, 1}, e \in {<<>>, <<"Exception in thread main">>},
         t \in {1}}
        \cup {[raised |-> TRUE, returncode |-> 0, stderr |-> <<>>,
               time |-> Fin(0)]}

RunRaised(e, msg) == [kind |-> e, msg |-> msg, time |-> Fin(0), size |-> Fin(0)]
RunReturned(t, sz) == [kind |-> "Result", msg |-> <<>>, time |-> t, size |-> sz]

\* the arguments of a command line, parsed by the registry parameter of
\* each flag; a flag not given is None in vars(self.args)
TunerArgStrs(flag) ==
    CASE flag = "executor_cores" ->
            {<<"4">>, <<"4", ",", "6">>, <<"6", ",", "4">>, <<"4", ",", "4">>}
      [] flag = "driver_memory" ->
            {<<"4", "k">>, <<"4", "k", ",", "8", "k">>,
             <<"8", "k", ",", "4", "k">>,
             <<"4", "k", ",", "8", "k", ",", "2", "k">>,
             <<"1", "k", ",", "8", "k", ",", "2", "k">>}
      [] flag = "max_executors" -> {<<"2", ",", "3">>}
TunerArgs(flag) ==
    {PlainObject(NoneV)}
        \cup {make_param_from_str(ChainMap(FLAG_TO_DIRECT_PARAM,
                                           FLAG_TO_CONF_PARAM)[flag], x).param :
                  x \in TunerArgStrs(flag)}
TunerArgDicts ==
    {dict_of(<<Entry("name", make_param_from_str(NAME, <<"sorter">>).param),
               Entry("class", make_param_from_str(CLASS, <<"Main">>).param),
               Entry("master",
                     make_param_from_str(MASTER, <<"local">>).param),
               Entry("deploy_mode",
                     make_param_from_str(DEPLOY_MODE, <<"client">>).param),
               Entry("path", PlainObject(StrV(<<"sort.jar">>))),
               Entry("executor_cores", c), Entry("driver_memory", m),
               Entry("max_executors", e)>>) :
        c \in TunerArgs("executor_cores"), m \in TunerArgs("driver_memory"),
        e \in TunerArgs("max_executors")}

\* manipulator(), which the search engine calls before the first run
Manipulator ==
    /\ search_space = <<>>
    /\ search_space' = <<manipulator(self_ranged_param_dict)>>
    /\ UNCHANGED <<self_arg_dict, self_param_dict, self_ranged_param_dict,
                   runs, run_pc, cfg_data, tuner_cfg, run_merged, run_cmd,
                   launches, run_result, run_ret>>
    /\ UNCHANGED notTunerVars

\* run is called with a configuration of the search space; lines 83-97
RunBuildTunerCfg ==
    /\ search_space /= <<>>
    /\ search_space[1].ok
    /\ run_pc \in {"idle", "returned"}
    /\ runs < MaxRuns
    /\ runs' = runs + 1
    /\ \E data \in Configurations(search_space[1].dims) :
        /\ cfg_data' = data
        /\ LET made == make_tuner_cfg(self_param_dict, data)
           IN /\ tuner_cfg' = made.dict
              /\ run_pc' = IF made.ok THEN "make_cmd" ELSE "raised"
              /\ run_ret' = IF made.ok THEN <<>>
                            ELSE <<RunRaised(made.err, <<>>)>>
    /\ run_merged' = <<>>
    /\ run_cmd' = <<>>
    /\ launches' = 0
    /\ run_result' = <<>>
    /\ UNCHANGED <<self_arg_dict, self_param_dict, self_ranged_param_dict,
                   search_space>>
    /\ UNCHANGED notTunerVars

\* spark_submit = SparkSubmitCmd({}, {}, fixed_args); run_cmd =
\* spark_submit.make_cmd(jar_path, program_conf, self.param_dict, tuner_cfg)
RunMakeCmd ==
    /\ run_pc = "make_cmd"
    /\ \E order \in {"asc", "desc"} :
        LET submit == SparkSubmitCmd(EmptyDict, EmptyDict, <<>>)
        IN /\ run_merged' = <<merge_params(submit, self_param_dict,
                                           tuner_cfg, order)>>
           /\ run_cmd' = <<make_cmd(submit, self_arg_dict["path"].value.s,
                                    <<>>, self_param_dict, tuner_cfg,
                                    order)>>
    /\ run_pc' = IF run_cmd'[1].ok THEN "call_program" ELSE "raised"
    /\ run_ret' = IF run_cmd'[1].ok THEN <<>>
                  ELSE <<RunRaised(run_cmd'[1].err, <<>>)>>
    /\ UNCHANGED <<self_arg_dict, self_param_dict, self_ranged_param_dict,
                   search_space, runs, cfg_data, tuner_cfg, launches,
                   run_result>>
    /\ UNCHANGED notTunerVars

\* run_result = self.call_program(run_cmd)
RunCallProgram ==
    /\ run_pc = "call_program"
    /\ launches' = launches + 1
    /\ \E outcome \in CallProgramOutcomes :
        /\ run_result' = IF outcome.raised THEN <<>> ELSE <<outcome>>
        /\ run_pc' = IF outcome.raised THEN "raised" ELSE "assert"
        /\ run_ret' = IF outcome.raised THEN <<RunRaised("Exception", <<>>)>>
                      ELSE <<>>
    /\ UNCHANGED <<self_arg_dict, self_param_dict, self_ranged_param_dict,
                   search_space, runs, cfg_data, tuner_cfg, run_merged,
                   run_cmd>>
    /\ UNCHANGED notTunerVars

\* assert run_result[RETURN_CODE] == 0, run_result[STDERR]
RunAssert ==
    /\ run_pc = "assert"
    /\ IF returncode_ok(run_result[1])
       THEN /\ run_pc' = "metrics"
            /\ run_ret' = <<>>
       ELSE /\ run_pc' = "raised"
            /\ run_ret' = <<RunRaised("AssertionError", run_result[1].stderr)>>
    /\ UNCHANGED <<self_arg_dict, self_param_dict, self_ranged_param_dict,
                   search_space, runs, cfg_data, tuner_cfg, run_merged,
                   run_cmd, launches, run_result>>
    /\ UNCHANGED notTunerVars

\* the metrics are logged; return Result(time=run_result[TIME], size=0)
RunReturn ==
    /\ run_pc = "metrics"
    /\ run_pc' = "returned"
    /\ run_ret' = <<RunReturned(run_result[1].time, Fin(0))>>
    /\ UNCHANGED <<self_arg_dict, self_param_dict, self_ranged_param_dict,
                   search_space, runs, cfg_data, tuner_cfg, run_merged,
                   run_cmd, launches, run_result>>
    /\ UNCHANGED notTunerVars

TunerNext ==
    \/ Manipulator
    \/ RunBuildTunerCfg \/ RunMakeCmd \/ RunCallProgram \/ RunAssert
    \/ RunReturn

(***************************************************************************)
(* spark_metrics.py, ProcessMetrics: the collector of a local subprocess,  *)
(* driven by the calls that MeasurementInterfaceExt.call_program makes:    *)
(* start(pid) after Popen, update(pid) at the top of every iteration of    *)
(* the sampling loop, get_perf_metrics(pid) after the loop.  One           *)
(* MeasurementInterfaceExt keeps one collector for all of its calls.       *)
(***************************************************************************)
MaxCollCalls == 2
MaxCollUpdates == 2
MaxCollClock == 2

\* the pids that the operating system hands out
CollPids == {1, 2}
\* psutil.cpu_count(logical=True)
CpuCounts == {1, 2}
\* a resident set size, in bytes, that a live process may show: 1.5 MiB
RssReadings == {1024 ^ 2 + 512 * 1024}
\* cpu_percent readings of a live process: part of a core, several cores
CpuReadings == {50, 250}

\* a + b on finite floats
fadd(a, b) == fdiv(a.n * b.d + b.n * a.d, a.d * b.d)

\* what one call of get_process_metrics can give for a process in a state:
\* the pair read from a process that is there, and 0, 0 from the except
\* clause (or from the emptied entry of a process that has exited)
get_process_metrics(state) ==
    IF state = "running"
    THEN {[mem |-> m, cpu |-> c, alive |-> TRUE] :
              m \in RssReadings, c \in CpuReadings}
    ELSE {[mem |-> 0, cpu |-> 0, alive |-> FALSE]}

\* the scaling of a cpu reading, with min where the code has max
vcore_increment_min(cpu_secs, n) ==
    fdiv((IF cpu_secs < 100 THEN cpu_secs ELSE 100) * n, 100)

\* (max(cpu_secs, 100) * self.cpu_num) / 100.0
vcore_increment(cpu_secs, n) ==
    fdiv((IF cpu_secs > 100 THEN cpu_secs ELSE 100) * n, 100)

\* start(pid=pid) at time now; self is [process_dict, process_info_dict]
ProcessMetrics_start(self, proc_pid, time_now) ==
    IF proc_pid \notin DOMAIN self.process_dict
    THEN [process_dict |->
              dict_set(self.process_dict, proc_pid, [pid |-> proc_pid]),
          process_info_dict |->
              dict_set(self.process_info_dict, proc_pid,
                       <<0, Fin(0), time_now, 0>>)]
    ELSE self

\* update(pid=pid, cpu_interval=1) when get_process_metrics gives reading
ProcessMetrics_update(self, n, proc_pid, time_now, reading) ==
    LET started == ProcessMetrics_start(self, proc_pid, time_now)
        info == started.process_info_dict[proc_pid]
    IN  [started EXCEPT !.process_info_dict =
            dict_set(started.process_info_dict, proc_pid,
                     <<info[1] + reading.mem,
                       fadd(info[2], vcore_increment(reading.cpu, n)),
                       info[3],
                       info[4] + 1>>)]

\* get_perf_metrics(pid=pid) at time end_time; the memory sum is an int, so
\* its division by 1024 ** 2 is the floor division of Python 2
ProcessMetrics_get_perf_metrics(self, proc_pid, end_time) ==
    LET info == self.process_info_dict[proc_pid]
    IN  [memorySeconds |-> info[1] \div (1024 ^ 2),
         vcoreSeconds |-> info[2],
         elapsedTime |-> end_time - info[3]]

\* the collector as the record the operators above work on
CollSelf ==
    [process_dict |-> process_dict, process_info_dict |-> process_info_dict]

\* subprocess.Popen: the operating system starts the process under a pid of
\* its choice, which may be one that an earlier, reaped process had
CollPopen ==
    /\ coll_pc = "idle"
    /\ coll_calls < MaxCollCalls
    /\ \E proc_pid \in CollPids : process_id' = proc_pid
    /\ proc_state' = "running"
    /\ coll_pc' = "start"
    /\ updates' = 0
    /\ call_log' = <<>>
    /\ metrics' = <<>>
    /\ UNCHANGED <<cpu_num, process_dict, process_info_dict, coll_clock,
                   coll_calls, call_t0, sample_log, metrics_at>>
    /\ UNCHANGED notCollVars

\* self.metrics.collector.start(pid=process_id)
CollStart ==
    /\ coll_pc = "start"
    /\ LET after == ProcessMetrics_start(CollSelf, process_id, coll_clock)
       IN  /\ process_dict' = after.process_dict
           /\ process_info_dict' = after.process_info_dict
    /\ sample_log' = IF process_id \in DOMAIN sample_log THEN sample_log
                     ELSE dict_set(sample_log, process_id, <<>>)
    /\ call_t0' = coll_clock
    /\ coll_pc' = "update"
    /\ UNCHANGED <<cpu_num, coll_clock, process_id, proc_state, coll_calls,
                   updates, call_log, metrics, metrics_at>>
    /\ UNCHANGED notCollVars

\* self.metrics.collector.update(pid=process_id, cpu_interval=1)
CollUpdate ==
    /\ coll_pc = "update"
    /\ \E reading \in get_process_metrics(proc_state) :
          /\ LET after == ProcessMetrics_update(CollSelf, cpu_num, process_id,
                                                coll_clock, reading)
             IN  /\ process_dict' = after.process_dict
                 /\ process_info_dict' = after.process_info_dict
          /\ call_log' = Append(call_log, reading)
          /\ sample_log' = dict_set(sample_log, process_id,
                                    Append(sample_log[process_id], reading))
    /\ updates' = updates + 1
    /\ coll_pc' = "poll"
    /\ UNCHANGED <<cpu_num, coll_clock, process_id, proc_state, coll_calls,
                   call_t0, metrics, metrics_at>>
    /\ UNCHANGED notCollVars

\* p.poll() and the test of the while loop
CollPoll ==
    /\ coll_pc = "poll"
    /\ \/ /\ proc_state = "exited"
          /\ proc_state' = "none"
          /\ coll_pc' = "metrics"
       \/ /\ proc_state = "running"
          /\ updates < MaxCollUpdates
          /\ proc_state' = proc_state
          /\ coll_pc' = "update"
    /\ UNCHANGED <<cpu_num, process_dict, process_info_dict, coll_clock,
                   process_id, coll_calls, updates, call_log, call_t0,
                   sample_log, metrics, metrics_at>>
    /\ UNCHANGED notCollVars

\* metrics = self.metrics.collector.get_perf_metrics(pid=process_id, ...)
CollGetPerfMetrics ==
    /\ coll_pc = "metrics"
    /\ metrics' = <<ProcessMetrics_get_perf_metrics(CollSelf, process_id,
                                                    coll_clock)>>
    /\ metrics_at' = coll_clock
    /\ coll_calls' = coll_calls + 1
    /\ coll_pc' = "idle"
    /\ UNCHANGED <<cpu_num, process_dict, process_info_dict, coll_clock,
                   process_id, proc_state, updates, call_log, call_t0,
                   sample_log>>
    /\ UNCHANGED notCollVars

\* the subprocess ends, by itself or killed
CollProcExit ==
    /\ proc_state = "running"
    /\ proc_state' = "exited"
    /\ UNCHANGED <<cpu_num, process_dict, process_info_dict, coll_clock,
                   coll_pc, process_id, coll_calls, updates, call_log,
                   call_t0, sample_log, metrics, metrics_at>>
    /\ UNCHANGED notCollVars

\* a second passes
CollTick ==
    /\ coll_clock < MaxCollClock
    /\ coll_clock' = coll_clock + 1
    /\ UNCHANGED <<cpu_num, process_dict, process_info_dict, coll_pc,
                   process_id, proc_state, coll_calls, updates, call_log,
                   call_t0, sample_log, metrics, metrics_at>>
    /\ UNCHANGED notCollVars

CollNext ==
    \/ CollPopen
    \/ CollStart
    \/ CollUpdate
    \/ CollPoll
    \/ CollGetPerfMetrics
    \/ CollProcExit
    \/ CollTick

(***************************************************************************)
(* Specifications.  Each one exercises one part of the program and leaves  *)
(* the other parts in the state they have when they are not in use.        *)
(***************************************************************************)

\* the objective, constructed and not yet asked to compare
ObjIdle(r0) ==
    /\ result1 = r0
    /\ result2 = r0
    /\ rel_tol = Fin(0)
    /\ abs_tol = Fin(0)
    /\ cmpOut = <<>>
    /\ int_fields = FALSE
    /\ relOut = <<>>

\* the runner before any call_program
RunIdle(m) ==
    /\ master = m
    /\ pids = <<>>
    /\ pid_lock = 0
    /\ now = 0
    /\ pc = [c \in Calls |-> "init"]
    /\ limit = [c \in Calls |-> NoLimit]
    /\ pid = [c \in Calls |-> 0]
    /\ proc = [c \in Calls |-> "none"]
    /\ exitcode = [c \in Calls |-> 0]
    /\ in_time = [c \in Calls |-> FALSE]
    /\ returncode = [c \in Calls |-> <<>>]
    /\ killed = [c \in Calls |-> FALSE]
    /\ exc = [c \in Calls |-> FALSE]
    /\ t0 = [c \in Calls |-> 0]
    /\ t1 = [c \in Calls |-> 0]
    /\ killSent = [c \in Calls |-> "none"]
    /\ yarnKill = [c \in Calls |-> FALSE]
    /\ out = [c \in Calls |-> <<>>]

\* the parameter model before any call
ParamIdle(r) ==
    /\ recv = r
    /\ op = "none"
    /\ arg = NoneV
    /\ pout = <<>>

\* the command synthesizer before any call
CmdIdle(jar) ==
    /\ spark_submit = SparkSubmitCmd(EmptyDict, EmptyDict, <<>>)
    /\ arg_dict = EmptyDict
    /\ tuner_cfg_dict = EmptyDict
    /\ jar_path = jar
    /\ program_conf = <<>>
    /\ key_order = "asc"
    /\ merged = <<>>
    /\ cmd = <<>>

\* no ScaledIntegerParameter under construction
ScaledIdle(m) ==
    /\ min_value = m
    /\ max_value = m
    /\ scaling = m
    /\ sval = m
    /\ tuner_param = <<>>
    /\ scaled = <<>>
    /\ unscaled = <<>>
    /\ lrange = <<>>
    /\ lrange_unscaled = <<<<>>, <<>>>>

\* no size being formatted
SizeIdle(n) ==
    /\ nbytes = n
    /\ unit_arg = <<>>
    /\ formatted = <<>>
    /\ parsed = <<>>

\* the registry objects, and no dict in use
FrameIdle(d) ==
    /\ heap = FrameRegistry
    /\ dheap = <<d, d, d, d>>
    /\ frame_calls = 0
    /\ ret = RetNone

\* a tuner that was given no argument and has not run
TunerIdle(d) ==
    /\ self_arg_dict = d
    /\ self_param_dict = d
    /\ self_ranged_param_dict = d
    /\ search_space = <<>>
    /\ runs = 0
    /\ run_pc = "idle"
    /\ cfg_data = d
    /\ tuner_cfg = d
    /\ run_merged = <<>>
    /\ run_cmd = <<>>
    /\ launches = 0
    /\ run_result = <<>>
    /\ run_ret = <<>>

\* a collector that was never asked to follow a process
CollIdle(n) ==
    /\ cpu_num = n
    /\ process_dict = EmptyDict
    /\ process_info_dict = EmptyDict
    /\ coll_clock = 0
    /\ coll_pc = "idle"
    /\ process_id = 0
    /\ proc_state = "none"
    /\ coll_calls = 0
    /\ updates = 0
    /\ call_log = <<>>
    /\ call_t0 = 0
    /\ sample_log = EmptyDict
    /\ metrics = <<>>
    /\ metrics_at = 0

ObjInit ==
    /\ result1 \in Results
    /\ result2 \in Results
    /\ rel_tol \in RelTols
    /\ abs_tol \in AbsTols
    /\ cmpOut = <<>>
    /\ int_fields \in BOOLEAN
    /\ relOut = <<>>
    /\ RunIdle("local")
    /\ ParamIdle(NAME)
    /\ CmdIdle(<<"path/to">>)
    /\ ScaledIdle(1)
    /\ SizeIdle(0)
    /\ FrameIdle(EmptyDict)
    /\ TunerIdle(EmptyDict)
    /\ CollIdle(1)

RunInit ==
    /\ master \in {"local", "yarn"}
    /\ pids = <<>>
    /\ pid_lock = 0
    /\ now = 0
    /\ pc = [c \in Calls |-> "init"]
    /\ limit \in [Calls -> Limits]
    /\ pid = [c \in Calls |-> 0]
    /\ proc = [c \in Calls |-> "none"]
    /\ exitcode = [c \in Calls |-> 0]
    /\ in_time = [c \in Calls |-> FALSE]
    /\ returncode = [c \in Calls |-> <<>>]
    /\ killed = [c \in Calls |-> FALSE]
    /\ exc = [c \in Calls |-> FALSE]
    /\ t0 = [c \in Calls |-> 0]
    /\ t1 = [c \in Calls |-> 0]
    /\ killSent = [c \in Calls |-> "none"]
    /\ yarnKill = [c \in Calls |-> FALSE]
    /\ out = [c \in Calls |-> <<>>]
    /\ ObjIdle([time |-> Fin(0), size |-> Fin(0)])
    /\ ParamIdle(NAME)
    /\ CmdIdle(<<"path/to">>)
    /\ ScaledIdle(1)
    /\ SizeIdle(0)
    /\ FrameIdle(EmptyDict)
    /\ TunerIdle(EmptyDict)
    /\ CollIdle(1)

ParamInit ==
    /\ recv \in Receivers
    /\ op \in {"mk", "make_param_from_str", "make_param"}
    /\ arg \in IF op = "make_param_from_str"
               THEN {StrV(x) : x \in ParamStrs}
               ELSE ParamVals
    /\ pout = <<>>
    /\ ObjIdle([time |-> Fin(0), size |-> Fin(0)])
    /\ RunIdle("local")
    /\ CmdIdle(<<"path/to">>)
    /\ ScaledIdle(1)
    /\ SizeIdle(0)
    /\ FrameIdle(EmptyDict)
    /\ TunerIdle(EmptyDict)
    /\ CollIdle(1)

CmdInit ==
    /\ spark_submit \in {SparkSubmitCmd(dd, cd, fp) :
                             dd \in DirectDefaults, cd \in ConfDefaults,
                             fp \in FixedParams}
    /\ arg_dict \in ArgDicts
    /\ tuner_cfg_dict \in TunerCfgDicts
    /\ jar_path = <<"path/to">>
    /\ program_conf \in ProgramConfs
    /\ key_order \in {"asc", "desc"}
    /\ merged = <<>>
    /\ cmd = <<>>
    /\ ObjIdle([time |-> Fin(0), size |-> Fin(0)])
    /\ RunIdle("local")
    /\ ParamIdle(NAME)
    /\ ScaledIdle(1)
    /\ SizeIdle(0)
    /\ FrameIdle(EmptyDict)
    /\ TunerIdle(EmptyDict)
    /\ CollIdle(1)

ScaledInit ==
    /\ \E c \in ScaledConfigs :
        /\ min_value = c[1]
        /\ max_value = c[2]
        /\ scaling = c[3]
    /\ sval \in ScaledValues
    /\ tuner_param = <<>>
    /\ scaled = <<>>
    /\ unscaled = <<>>
    /\ lrange = <<>>
    /\ lrange_unscaled = <<<<>>, <<>>>>
    /\ ObjIdle([time |-> Fin(0), size |-> Fin(0)])
    /\ RunIdle("local")
    /\ ParamIdle(NAME)
    /\ CmdIdle(<<"path/to">>)
    /\ SizeIdle(0)
    /\ FrameIdle(EmptyDict)
    /\ TunerIdle(EmptyDict)
    /\ CollIdle(1)

SizeInit ==
    /\ nbytes \in ByteCounts
    /\ unit_arg \in UnitArgs
    /\ formatted = <<>>
    /\ parsed = <<>>
    /\ ObjIdle([time |-> Fin(0), size |-> Fin(0)])
    /\ RunIdle("local")
    /\ ParamIdle(NAME)
    /\ CmdIdle(<<"path/to">>)
    /\ ScaledIdle(1)
    /\ FrameIdle(EmptyDict)
    /\ TunerIdle(EmptyDict)
    /\ CollIdle(1)

FrameInit ==
    /\ heap = FrameRegistry
    /\ dheap \in {<<a, t, dd, cd>> :
                     a \in FrameArgDicts, t \in FrameTunerCfgDicts,
                     dd \in FrameDirectDefaults, cd \in FrameConfDefaults}
    /\ frame_calls = 0
    /\ ret = RetNone
    /\ ObjIdle([time |-> Fin(0), size |-> Fin(0)])
    /\ RunIdle("local")
    /\ ParamIdle(NAME)
    /\ CmdIdle(<<"path/to">>)
    /\ ScaledIdle(1)
    /\ SizeIdle(0)
    /\ TunerIdle(EmptyDict)
    /\ CollIdle(1)

\* SparkConfigTuner.__init__ on the arguments of one command line
TunerInit ==
    /\ self_arg_dict \in TunerArgDicts
    /\ self_param_dict = get_param_map(self_arg_dict, accept_all)
    /\ self_ranged_param_dict = get_param_map(self_param_dict, is_range)
    /\ search_space = <<>>
    /\ runs = 0
    /\ run_pc = "idle"
    /\ cfg_data = EmptyDict
    /\ tuner_cfg = EmptyDict
    /\ run_merged = <<>>
    /\ run_cmd = <<>>
    /\ launches = 0
    /\ run_result = <<>>
    /\ run_ret = <<>>
    /\ ObjIdle([time |-> Fin(0), size |-> Fin(0)])
    /\ RunIdle("local")
    /\ ParamIdle(NAME)
    /\ CmdIdle(<<"path/to">>)
    /\ ScaledIdle(1)
    /\ SizeIdle(0)
    /\ FrameIdle(EmptyDict)
    /\ CollIdle(1)

\* the synthesizer given dicts whose parameters need not be their flag's
PartitionInit ==
    /\ spark_submit \in {SparkSubmitCmd(dd, cd, <<>>) :
                             dd \in DirectDefaults, cd \in ConfDefaults}
    /\ arg_dict \in AnyFlagArgDicts
    /\ tuner_cfg_dict \in AnyFlagTunerCfgDicts
    /\ jar_path = <<"path/to">>
    /\ program_conf = <<>>
    /\ key_order \in {"asc", "desc"}
    /\ merged = <<>>
    /\ cmd = <<>>
    /\ ObjIdle([time |-> Fin(0), size |-> Fin(0)])
    /\ RunIdle("local")
    /\ ParamIdle(NAME)
    /\ ScaledIdle(1)
    /\ SizeIdle(0)
    /\ FrameIdle(EmptyDict)
    /\ TunerIdle(EmptyDict)
    /\ CollIdle(1)

\* ProcessMetrics.__init__ on a machine with some number of logical cores
CollInit ==
    /\ cpu_num \in CpuCounts
    /\ process_dict = EmptyDict
    /\ process_info_dict = EmptyDict
    /\ coll_clock = 0
    /\ coll_pc = "idle"
    /\ process_id = 0
    /\ proc_state = "none"
    /\ coll_calls = 0
    /\ updates = 0
    /\ call_log = <<>>
    /\ call_t0 = 0
    /\ sample_log = EmptyDict
    /\ metrics = <<>>
    /\ metrics_at = 0
    /\ ObjIdle([time |-> Fin(0), size |-> Fin(0)])
    /\ RunIdle("local")
    /\ ParamIdle(NAME)
    /\ CmdIdle(<<"path/to">>)
    /\ ScaledIdle(1)
    /\ SizeIdle(0)
    /\ FrameIdle(EmptyDict)
    /\ TunerIdle(EmptyDict)

SpecObj == ObjInit /\ [][ObjNext]_vars

SpecRun == RunInit /\ [][RunNext]_vars

SpecParam == ParamInit /\ [][ParamNext]_vars

SpecCmd == CmdInit /\ [][CmdNext]_vars

SpecScaled == ScaledInit /\ [][ScaledNext]_vars

SpecSize == SizeInit /\ [][SizeNext]_vars

SpecFrame == FrameInit /\ [][FrameNext]_vars

SpecTuner == TunerInit /\ [][TunerNext]_vars

SpecPartition == PartitionInit /\ [][CmdNext]_vars

SpecColl == CollInit /\ [][CollNext]_vars

(***************************************************************************)
(* C1.  For the tuner's objective with any rel_tol > 0 (0.06 included), a  *)
(* timed-out result (time = +infinity) compares as worse than every result *)
(* with a finite time, whatever the sizes: result_compare(timedOut,        *)
(* finite) = 1 and result_compare(finite, timedOut) = -1.                  *)
(***************************************************************************)
C1_TimedOutRanksWorst ==
    (cmpOut /= <<>> /\ flt(Fin(0), rel_tol)) =>
        /\ (IsInf(result1.time) /\ IsFin(result2.time)) => cmpOut = <<1>>
        /\ (IsFin(result1.time) /\ IsInf(result2.time)) => cmpOut = <<-1>>

(***************************************************************************)
(* C2.  Whenever call_program finishes, by any exit path (normal exit,     *)
(* timeout kill, or an exception raised in the sampling loop), the pid of  *)
(* the process it launched is not in self.pids; and every change of        *)
(* self.pids is a step of the call that holds pid_lock.                    *)
(***************************************************************************)
C2_Step ==
    /\ \A c \in Calls :
        (pc[c] \notin Finished /\ pc'[c] \in Finished /\ pid'[c] /= 0)
            => ~InList(pids', pid'[c])
    /\ pids' /= pids =>
        /\ pid_lock /= 0
        /\ pid_lock' = pid_lock
        /\ pc'[pid_lock] /= pc[pid_lock]

C2_PidRemovedOnExit == [][C2_Step]_vars

\* a call leaves by the except clause, after its pid was registered
C2_Witness ==
    \E c \in Calls :
        /\ pc[c] = "raised"
        /\ exc[c]
        /\ killSent[c] = "except"
        /\ ~InList(pids, pid[c])

(***************************************************************************)
(* C3.  No exit path of call_program that raises leaves the launched       *)
(* process alive: when an exception raised after the launch (by the        *)
(* collector's start, update or get_perf_metrics) reaches the caller, the  *)
(* process has been killed or has exited.                                  *)
(***************************************************************************)
C3_NoOrphanOnRaise ==
    \A c \in Calls :
        (pc[c] = "raised" /\ pid[c] /= 0) => proc[c] /= "running"

(***************************************************************************)
(* C4.  In every result call_program returns, timeout is true exactly when *)
(* the runner killed the process for exceeding the limit, and then time is *)
(* +infinity; otherwise the process ended by itself, timeout is false and  *)
(* time is the finite duration t1 - t0 >= 0.  So time = +infinity iff      *)
(* timeout.                                                                *)
(***************************************************************************)
C4_TimeoutIffInfinite ==
    \A c \in Calls :
        out[c] /= <<>> =>
            LET r == out[c][1] IN
            /\ r.timeout = (killSent[c] = "timeout")
            /\ r.timeout => r.time = PosInf
            /\ ~r.timeout =>
                /\ r.time = Fin(t1[c] - t0[c])
                /\ t1[c] - t0[c] >= 0
                /\ r.returncode \in {<<0>>, <<1>>}
            /\ IsInf(r.time) = r.timeout

\* a call returned the result of a run that it killed on timeout
C4_Witness ==
    \E c \in Calls :
        /\ out[c] /= <<>>
        /\ out[c][1].timeout
        /\ out[c][1].returncode = <<-9>>

(***************************************************************************)
(* C5.  With several calls of call_program running on one interface,       *)
(* every launched process that is still running, of a call that has not    *)
(* finished, is in self.pids, so that an interrupt handler that takes      *)
(* pid_lock and reads self.pids sees every live process.  (Stated for the  *)
(* moments at which the lock is free, when the handler can read.)          *)
(***************************************************************************)
C5_LiveProcessesListed ==
    pid_lock = 0 =>
        \A c \in Calls :
            (pid[c] /= 0 /\ pc[c] \notin Finished /\ proc[c] = "running")
                => InList(pids, pid[c])

\* the flags of both registries, and the registry parameter of a flag
RegisteredFlags == (DOMAIN FLAG_TO_DIRECT_PARAM) \cup (DOMAIN FLAG_TO_CONF_PARAM)
IsDirectFlag(f) == InDict(FLAG_TO_DIRECT_PARAM, f)
RegistryParam(f) ==
    IF IsDirectFlag(f) THEN FLAG_TO_DIRECT_PARAM[f] ELSE FLAG_TO_CONF_PARAM[f]
\* the map and the defaults a flag's entry belongs to
MapOf(m, f) == IF IsDirectFlag(f) THEN m.direct ELSE m.conf
DefaultsOf(f) ==
    IF IsDirectFlag(f) THEN spark_submit.direct_param_default
    ELSE spark_submit.conf_defaults
MergedOk == merged /= <<>> /\ merged[1].ok

(***************************************************************************)
(* C6.  merge_params applies the precedence tuner_cfg_dict > arg_dict >    *)
(* defaults: for every registered flag, the entry under the flag's Spark   *)
(* name is the value of the tuner_cfg_dict parameter if that dict has the  *)
(* flag, else the value of the arg_dict parameter if that dict has it,     *)
(* else the default's value, passed through unchanged (and there is no     *)
(* entry when none of the three has one).                                  *)
(***************************************************************************)
C6_MergePrecedence ==
    MergedOk =>
        \A f \in RegisteredFlags :
            LET n == RegistryParam(f).spark_name
                map == MapOf(merged[1], f)
            IN IF InDict(tuner_cfg_dict, f)
               THEN InDict(map, n)
                    /\ map[n] = merge_value(tuner_cfg_dict[f]).val
               ELSE IF InDict(arg_dict, f)
               THEN InDict(map, n) /\ map[n] = merge_value(arg_dict[f]).val
               ELSE IF InDict(DefaultsOf(f), n)
               THEN InDict(map, n) /\ map[n] = DefaultsOf(f)[n].value
               ELSE ~InDict(map, n)

\* a merge where the search value overrides a different argument, an
\* argument overrides a default, and a default stands alone
C6_Witness ==
    /\ MergedOk
    /\ InDict(tuner_cfg_dict, "driver_memory")
    /\ InDict(arg_dict, "driver_memory")
    /\ tuner_cfg_dict["driver_memory"] /= arg_dict["driver_memory"]
    /\ InDict(spark_submit.direct_param_default, "driver-memory")
    /\ InDict(spark_submit.direct_param_default, "executor-cores")
    /\ InDict(arg_dict, "max_executors")
    /\ InDict(spark_submit.conf_defaults,
              "spark.dynamicAllocation.maxExecutors")

\* a key that is a parameter's native Spark name and not a flag
NativeNames ==
    {RegistryParam(f).spark_name : f \in RegisteredFlags} \ RegisteredFlags
HasBadEntry(d) ==
    \/ \E k \in DOMAIN d : ~is_param(d[k])
    \/ \E k \in DOMAIN d : k \in NativeNames

(***************************************************************************)
(* C7.  merge_params fails (it returns no maps and does not silently drop  *)
(* the entry) when an object in arg_dict or tuner_cfg_dict is not a        *)
(* Parameter instance, and when a dictionary is keyed by native Spark      *)
(* parameter names ("executor-cores") instead of flag names.               *)
(***************************************************************************)
C7_BadDictsRejected ==
    (merged /= <<>> /\ (HasBadEntry(arg_dict) \/ HasBadEntry(tuner_cfg_dict)))
        => ~merged[1].ok

\* the flags whose registry parameter is a memory
MemoryFlags ==
    {f \in RegisteredFlags : RegistryParam(f).cls = "SparkMemoryType"}
Last(s) == s[Len(s)]
\* a string of digits followed by the unit character u
IsSizeIn(v, u) ==
    /\ v.t = "str"
    /\ Len(v.s) >= 2
    /\ Last(v.s) = u
    /\ isdigit(SubSeq(v.s, 1, Len(v.s) - 1))

CmdGroups ==
    LET m == merge_params(spark_submit, arg_dict, tuner_cfg_dict, key_order)
    IN <<SPARK_SUBMIT_PATH,
         make_subcmd(m.direct, TRUE, key_order),
         make_subcmd(m.conf, FALSE, key_order),
         spark_submit.fixed_param, jar_path, program_conf>>
NotEmpty(s) == Len(s) > 0
\* the groups, single-spaced, an empty group left out
SingleSpaced == join(<<" ">>, SelectSeq(CmdGroups, NotEmpty))
CountOf(s, c) == Cardinality({i \in 1..Len(s) : s[i] = c})
\* s without the spaces that precede a space or end the string
RECURSIVE Squeeze(_)
Squeeze(s) ==
    IF Len(s) = 0 THEN <<>>
    ELSE IF s[1] = " " /\ (Len(s) = 1 \/ s[2] = " ") THEN Squeeze(Tail(s))
    ELSE <<s[1]>> \o Squeeze(Tail(s))
CmdOk_ == cmd /= <<>> /\ cmd[1].ok

(***************************************************************************)
(* C9 (as claimed).  For all inputs, an empty direct group, conf group,    *)
(* fixed-parameter string or program-argument string included, make_cmd    *)
(* returns the executable, the direct parameters, the conf parameters, the *)
(* fixed parameters, the jar path and the program arguments, with exactly  *)
(* one space between consecutive tokens and no trailing separator.         *)
(***************************************************************************)
C9_SingleSpacedCommand ==
    CmdOk_ => cmd[1].s = SingleSpaced

(***************************************************************************)
(* C9 (amended).  make_cmd returns the executable followed by the direct   *)
(* group, the conf group, the fixed parameters, the jar path and the       *)
(* program arguments, each preceded by one space.  An empty group still    *)
(* contributes its space (a doubled space at its place, a trailing space   *)
(* for empty program arguments); without those extra spaces the command is *)
(* the single-spaced one, which it equals when no group is empty.          *)
(***************************************************************************)
C9_EmptyGroupKeepsSeparator ==
    CmdOk_ =>
        /\ cmd[1].s = CmdGroups[1] \o <<" ">> \o CmdGroups[2] \o <<" ">>
                          \o CmdGroups[3] \o <<" ">> \o CmdGroups[4]
                          \o <<" ">> \o CmdGroups[5] \o <<" ">>
                          \o CmdGroups[6]
        /\ Squeeze(cmd[1].s) = SingleSpaced
        /\ CountOf(cmd[1].s, " ") =
               CountOf(SingleSpaced, " ")
                   + Cardinality({i \in 1..6 : ~NotEmpty(CmdGroups[i])})

\* a command made with parameters in the direct group, an empty conf group
\* and no program arguments
C9_Witness ==
    /\ CmdOk_
    /\ NotEmpty(CmdGroups[2])
    /\ ~NotEmpty(CmdGroups[3])
    /\ ~NotEmpty(CmdGroups[6])

(***************************************************************************)
(* C10.  Every Parameter satisfies: is_range_val is true iff the stored    *)
(* value is a tuple with start < end; a tuple given with start = end is    *)
(* stored as the scalar; whenever is_range_val is false the stored value   *)
(* is a scalar, never a tuple; so a stored tuple always has start <= end.  *)
(***************************************************************************)
C10_RangeFlagMatchesValue ==
    (pout /= <<>> /\ pout[1].ok) =>
        LET p == pout[1].param
        IN /\ p.is_range_val <=>
                (p.value.t = "tuple" /\ p.value.tup[1] < p.value.tup[2])
           /\ ~p.is_range_val => p.value.t /= "tuple"
           /\ p.value.t = "tuple" => p.value.tup[1] <= p.value.tup[2]

(***************************************************************************)
(* The strings make_param_from_str is given, read as the specification     *)
(* reads them: comma-separated tokens, each under the scalar rule of the   *)
(* receiver's kind.                                                        *)
(***************************************************************************)
ParsedCall == op = "make_param_from_str" /\ pout /= <<>>
ArgTokens == split(arg.s, ",")
TokenLimit == IF recv.cls = "SparkIntType" THEN 2 ELSE 3
TokenOk(tok) ==
    CASE recv.cls = "SparkIntType" -> isdigit(tok) /\ int_of_str(tok) > 0
      [] recv.cls = "SparkMemoryType" -> parse_size(tok).ok
      [] recv.cls = "SparkBooleanType" ->
            lower(tok) \in {<<"t", "r", "u", "e">>, <<"f", "a", "l", "s", "e">>}
      [] OTHER -> TRUE
Malformed ==
    CASE recv.cls \in {"SparkIntType", "SparkMemoryType"} ->
            \/ Len(arg.s) = 0
            \/ Len(ArgTokens) > TokenLimit
            \/ \E i \in 1..Len(ArgTokens) : ~TokenOk(ArgTokens[i])
      [] recv.cls = "SparkBooleanType" -> ~TokenOk(arg.s)
      [] OTHER -> FALSE
TokenVal(i) ==
    IF recv.cls = "SparkIntType" THEN int_of_str(ArgTokens[i])
    ELSE parse_size(ArgTokens[i]).val.i

(***************************************************************************)
(* C11.  make_param_from_str signals every malformed input (the empty      *)
(* string, too many comma-separated tokens, a token that fails the kind's  *)
(* scalar rule) with SparkParamParseError, and with no other exception.    *)
(***************************************************************************)
C11_MalformedIsParseError ==
    ParsedCall =>
        /\ Malformed => ~pout[1].ok
        /\ ~pout[1].ok => pout[1].err = "SparkParamParseError"

(***************************************************************************)
(* C12.  make_param_from_str on well-formed input yields, for an integer   *)
(* parameter, the point a from one token and the range (a, b) from two;    *)
(* for a memory parameter the byte count from one token, (a, b, 1) from    *)
(* two and (a, b, s) from three, each token converted to bytes; a range    *)
(* with a = b collapses to the point a.                                    *)
(***************************************************************************)
C12_WellFormedValue ==
    (ParsedCall /\ recv.cls \in {"SparkIntType", "SparkMemoryType"}
                /\ ~Malformed) =>
        /\ pout[1].ok
        /\ pout[1].param.value =
             IF Len(ArgTokens) = 1 THEN IntV(TokenVal(1))
             ELSE IF TokenVal(1) = TokenVal(2) THEN IntV(TokenVal(1))
             ELSE IF recv.cls = "SparkIntType"
             THEN TupV(<<TokenVal(1), TokenVal(2)>>)
             ELSE IF Len(ArgTokens) = 2
             THEN TupV(<<TokenVal(1), TokenVal(2), 1>>)
             ELSE TupV(<<TokenVal(1), TokenVal(2), TokenVal(3)>>)
        /\ arg.s = <<"4", "k", ",", "8", "k", ",", "2", "k">> =>
             pout[1].param.value = TupV(<<4096, 8192, 2048>>)

\* a memory range of two tokens, stored with its implicit scale
C12_Witness ==
    /\ ParsedCall
    /\ recv.cls = "SparkMemoryType"
    /\ arg.s = <<"4", "k", ",", "6", "k">>
    /\ pout[1].ok
    /\ pout[1].param.value = TupV(<<4096, 6144, 1>>)

(***************************************************************************)
(* The cases of the claims on ScaledIntegerParameter.                      *)
(***************************************************************************)
Constructed == tuner_param /= <<>>
ValidScaling == 0 < py_abs(scaling) /\ py_abs(scaling) <= py_abs(min_value)
InRange == min_value <= sval /\ sval <= max_value
TestedConfig ==
    /\ 1 <= min_value /\ min_value < max_value
    /\ 1 <= scaling /\ scaling <= min_value

(***************************************************************************)
(* C13.  With 1 <= min < max and 1 <= scale <= min, and an integer val in  *)
(* [min, max], _unscale(_scale(val)) lies in [min, max]; and for           *)
(* legal_range() = (lo, hi), _unscale(lo) >= min and _unscale(hi) <= max,  *)
(* lo and hi being the ints that int() returns.                            *)
(***************************************************************************)
C13_ScalingBounded ==
    TestedConfig =>
        /\ (InRange /\ unscaled /= <<>>) =>
               (min_value <= unscaled[1] /\ unscaled[1] <= max_value)
        /\ lrange_unscaled[1] /= <<>> => lrange_unscaled[1][1] >= min_value
        /\ lrange_unscaled[2] /= <<>> => lrange_unscaled[2][1] <= max_value

\* a round trip at the upper edge, and a legal range whose upper bound int()
\* had to truncate, unscaled again
C13_Witness ==
    /\ TestedConfig
    /\ sval = max_value
    /\ unscaled /= <<>>
    /\ ((max_value - min_value) * SCALING) % scaling /= 0
    /\ lrange_unscaled[1] /= <<>>
    /\ lrange_unscaled[2] /= <<>>

C15_ScalingFormulas ==
    (Constructed /\ tuner_param[1].ok) =>
        /\ scaled /= <<>> =>
               scaled[1].n * scaling = (sval - min_value) * SCALING * scaled[1].d
        /\ unscaled /= <<>> =>
               /\ py_abs(2 * (scaled[1].n * scaling
                        - (unscaled[1] - min_value) * scaled[1].d * SCALING))
                      <= scaled[1].d * SCALING
               /\ InRange => py_abs(unscaled[1] - sval) <= 1
        /\ \A i \in 1..2 :
               lrange_unscaled[i] /= <<>> =>
                   py_abs(2 * (lrange[i] * scaling
                        - (lrange_unscaled[i][1] - min_value) * SCALING))
                       <= SCALING
        /\ (<<min_value, max_value, scaling, sval>> = <<1000, 5000, 500, 2000>>
                /\ scaled /= <<>>) => scaled[1] = Fin(2000)

(***************************************************************************)
(* The text format_size returned, read as a magnitude and a unit.          *)
(***************************************************************************)
AllUnits == <<"b", "k", "m", "g", "t", "p">>
Text == formatted[1].val.s
Magnitude == int_of_str(SubSeq(Text, 1, Len(Text) - 1))
UnitIndex == (CHOOSE i \in 1..Len(AllUnits) : AllUnits[i] = Text[Len(Text)]) - 1
UnitSize == 1024 ^ UnitIndex
Unforced == unit_arg = <<>>
\* the pairs <<m, i>> with 1 <= m < 1024 whose m * 1024^i is a byte count of
\* the model
WholeUnitCounts ==
    {<<m, i>> : m \in 1..1023, i \in 0..2} \cup {<<1, 3>>}

(***************************************************************************)
(* C16.  For every integer byte count n >= 0, formatting n with            *)
(* Util.format_size (no forced unit) and parsing the result with a binary  *)
(* unit-aware size parser gives back exactly n.                            *)
(***************************************************************************)
C16_FormatParseRoundTrip ==
    (Unforced /\ parsed /= <<>>) =>
        (parsed[1].ok /\ parsed[1].val = IntV(nbytes))

(***************************************************************************)
(* C16, as the code has it.  Parsing the text format_size(n) returned      *)
(* gives the largest multiple of the emitted unit that does not exceed n:  *)
(* never more than n, and n itself when n < 1024 or n = m * 1024^i with    *)
(* 1 <= m < 1024.                                                          *)
(***************************************************************************)
C16_ParseGivesWholeUnits ==
    parsed /= <<>> =>
        /\ parsed[1].ok
        /\ parsed[1].val = IntV((nbytes \div UnitSize) * UnitSize)
        /\ int_of(parsed[1].val) <= nbytes
        /\ (Unforced /\ (nbytes < 1024
                \/ \E w \in WholeUnitCounts : nbytes = w[1] * 1024 ^ w[2])) =>
               parsed[1].val = IntV(nbytes)

\* a byte count that is no whole number of the unit emitted for it
C16_Witness ==
    /\ Unforced
    /\ nbytes = 4320133
    /\ parsed /= <<>>
    /\ Text = <<"4", "2", "1", "8", "k">>
    /\ parsed[1].val = IntV(4218 * 1024)

(***************************************************************************)
(* C17.  Util.format_size(n) with no forced unit emits an integral         *)
(* magnitude and a unit such that the magnitude either denotes n exactly   *)
(* (n = m * 1024^i with 1 <= m < 1024 is rendered as m and the i-th unit)  *)
(* or keeps four significant digits (a magnitude in 1000..9999); no        *)
(* n >= 1024 is rendered with a truncated magnitude of fewer digits.       *)
(***************************************************************************)
C17_ExactOrFourDigits ==
    (Unforced /\ formatted /= <<>>) =>
        /\ formatted[1].ok
        /\ isdigit(SubSeq(Text, 1, Len(Text) - 1))
        /\ \/ Magnitude * UnitSize = nbytes
           \/ (1000 <= Magnitude /\ Magnitude <= 9999)
        /\ \A w \in WholeUnitCounts :
               nbytes = w[1] * 1024 ^ w[2] =>
                   (Magnitude = w[1] /\ UnitIndex = w[2])

(***************************************************************************)
(* The tolerance test of the objective, written out on the numbers: the    *)
(* times of the model are whole numbers or +infinity, rel_tol is p/q and   *)
(* abs_tol a whole number.  |a - b| <= max(rel_tol * max(|a|, |b|),        *)
(* abs_tol), where the arithmetic of the extended reals defines it.        *)
(***************************************************************************)
BothFinite == IsFin(result1.time) /\ IsFin(result2.time)
GateDefined ==
    \/ BothFinite
    \/ (IsFin(result1.time) /= IsFin(result2.time) /\ rel_tol.n > 0)
TimeGap == py_abs(result1.time.n - result2.time.n)
LargerTime ==
    IF result1.time.n > result2.time.n THEN result1.time.n
    ELSE result2.time.n
TimesWithinTolerance ==
    IF BothFinite
    THEN \/ TimeGap * rel_tol.d <= rel_tol.n * LargerTime
         \/ TimeGap <= abs_tol.n
    ELSE TRUE
SignOf(a, b) == IF a < b THEN -1 ELSE IF a > b THEN 1 ELSE 0
TimeSign ==
    IF BothFinite THEN SignOf(result1.time.n, result2.time.n)
    ELSE IF IsFin(result1.time) THEN -1 ELSE 1

(***************************************************************************)
(* C18.  result_compare(a, b) is the sign of cmp(a.size, b.size) when      *)
(* |a.time - b.time| <= max(rel_tol * max(|a.time|, |b.time|), abs_tol),   *)
(* and the sign of cmp(a.time, b.time) otherwise; it is -1, 0 or 1.        *)
(***************************************************************************)
C18_CompareByToleranceGate ==
    cmpOut /= <<>> =>
        /\ cmpOut[1] \in {-1, 0, 1}
        /\ GateDefined =>
               cmpOut[1] = IF TimesWithinTolerance
                           THEN SignOf(result1.size.n, result2.size.n)
                           ELSE TimeSign

\* two different times within tolerance, ordered by the sizes against the
\* order of the times
C18_Witness ==
    /\ cmpOut = <<-1>>
    /\ BothFinite
    /\ result1.time.n > result2.time.n
    /\ TimesWithinTolerance
    /\ result1.size.n < result2.size.n

(***************************************************************************)
(* C19.  result_relative(a, b) uses the same tolerance gate and returns    *)
(* the ratio a.size / b.size when the times are within tolerance, else     *)
(* a.time / b.time; with a zero denominator it is not-a-number for a zero  *)
(* numerator and +infinity for a nonzero one.                              *)
(***************************************************************************)
C19_RelativeIsRatio ==
    (relOut /= <<>> /\ BothFinite) =>
        LET num == IF TimesWithinTolerance THEN result1.size.n
                   ELSE result1.time.n
            den == IF TimesWithinTolerance THEN result2.size.n
                   ELSE result2.time.n
        IN IF den = 0
           THEN relOut[1] = IF num = 0 THEN NaN ELSE PosInf
           ELSE IsFin(relOut[1]) /\ relOut[1].n * den = num * relOut[1].d

(***************************************************************************)
(* C20.  Parameters and parameter dictionaries are never mutated: across   *)
(* any sequence of make_param_from_str, make_param, merge_params and       *)
(* make_cmd calls every parameter object that exists (the receivers and    *)
(* the registry defaults among them) keeps its name, value, is_range_val   *)
(* and description, and every dict that exists (arg_dict, tuner_cfg_dict   *)
(* and the default dicts among them) keeps its entries; what a call        *)
(* returns is a newly built object.                                        *)
(***************************************************************************)
C20_Step ==
    /\ Len(heap') >= Len(heap)
    /\ \A i \in 1..Len(heap) : heap'[i] = heap[i]
    /\ Len(dheap') >= Len(dheap)
    /\ \A i \in 1..Len(dheap) : dheap'[i] = dheap[i]
    /\ ret'.kind = "param" =>
           (ret'.refs[1] > Len(heap) /\ ret'.refs[1] <= Len(heap'))
    /\ ret'.kind = "dicts" =>
           \A i \in 1..2 :
               (ret'.refs[i] > Len(dheap) /\ ret'.refs[i] <= Len(dheap'))
C20_NothingMutated == [][C20_Step]_vars

\* after three calls: parameters were made from a registry object and from
\* a parameter made before, and a merge of non-empty dicts returned
C20_Witness ==
    /\ frame_calls = MaxFrameCalls
    /\ Len(heap) = Len(FrameRegistry) + 2
    /\ heap[Len(heap)].value = TupV(<<4, 6>>)
    /\ Len(dheap) = 6
    /\ DOMAIN dheap[ArgDictRef] /= {}
    /\ DOMAIN dheap[5] /= {}
    /\ \A i \in 1..Len(FrameRegistry) : heap[i] = FrameRegistry[i]

(***************************************************************************)
(* C21.  make_param(v) returns a point-valued parameter: is_range_val is   *)
(* false, the value is v, and the Spark name and the description are the   *)
(* receiver's.  It fails when v violates the legality of the kind: for the *)
(* integer and memory kinds v must be an integer > 0, for the boolean kind *)
(* v must be a boolean (and for the string kind a string).  An integer is  *)
(* what Python takes for one: True is the integer 1 and False is 0.        *)
(***************************************************************************)
MadeParam == op = "make_param" /\ pout /= <<>>
PositiveInteger(v) == (v.t = "int" /\ v.i > 0) \/ v = BoolV(TRUE)
LegalFor(kind, v) ==
    CASE kind \in {"SparkIntType", "SparkMemoryType"} -> PositiveInteger(v)
      [] kind = "SparkBooleanType" -> v.t = "bool"
      [] kind = "SparkStringType" -> v.t = "str"
C21_MakeParamPointValued ==
    MadeParam =>
        /\ pout[1].ok <=> LegalFor(recv.cls, arg)
        /\ pout[1].ok =>
            /\ pout[1].param.is_range_val = FALSE
            /\ pout[1].param.value = arg
            /\ pout[1].param.spark_name = recv.spark_name
            /\ pout[1].param.desc = recv.desc
            /\ pout[1].param.cls = recv.cls

\* DRIVER_MEM.make_param(3) gave a memory parameter of 3 bytes
C21_Witness ==
    /\ MadeParam
    /\ recv = DRIVER_MEM
    /\ arg = IntV(3)
    /\ pout[1].ok
    /\ pout[1].param.value = IntV(3)

(***************************************************************************)
(* C22.  For each candidate configuration, SparkConfigTuner.run launches   *)
(* the rendered command exactly once: call_program is called once the      *)
(* command is rendered and never a second time in the same run.  If the    *)
(* return code of the subprocess is not zero, run fails with an            *)
(* AssertionError that carries the captured standard error, and gives no   *)
(* Result.                                                                 *)
(***************************************************************************)
RunFinished == run_pc \in {"returned", "raised"}
CommandFailed == run_result /= <<>> /\ run_result[1].returncode /= 0
C22_FailedRunAsserts ==
    /\ launches <= 1
    /\ run_pc \in {"assert", "metrics", "returned"} => launches = 1
    /\ (RunFinished /\ run_cmd /= <<>> /\ run_cmd[1].ok) => launches = 1
    /\ CommandFailed => run_pc \in {"assert", "raised"}
    /\ (CommandFailed /\ RunFinished) =>
           /\ run_ret[1].kind = "AssertionError"
           /\ run_ret[1].msg = run_result[1].stderr
    /\ (run_pc = "returned") =>
           /\ run_ret[1].kind = "Result"
           /\ run_result[1].returncode = 0

\* the second candidate's command ended with status 1 and words on its
\* standard error, and run raised them
C22_Witness ==
    /\ runs = 2
    /\ run_pc = "raised"
    /\ launches = 1
    /\ CommandFailed
    /\ run_result[1].stderr /= <<>>
    /\ run_ret[1].kind = "AssertionError"
    /\ run_ret[1].msg = run_result[1].stderr

(***************************************************************************)
(* C23.  When a run exceeds its time limit and the master is yarn,         *)
(* call_program issues the remote application kill first, then kills the   *)
(* local process group, then blocks until the exit of the process is       *)
(* observed; for a local master only the process-group kill and the wait   *)
(* happen.  kill_app is one step here, the remote kill before the local    *)
(* one, and the wait is the step after it.                                 *)
(***************************************************************************)
KilledOnTimeout(c) == killSent[c] = "timeout"
C23_RemoteKillFirst ==
    \A c \in Calls :
        KilledOnTimeout(c) =>
            /\ yarnKill[c] = (master = "yarn")
            /\ proc[c] /= "running"
            /\ pc[c] /= "wait" => (proc[c] = "reaped" /\ returncode[c] /= <<>>)

(***************************************************************************)
(* C24.  If a time limit is set and the process is still running when the  *)
(* limit has expired, the kill is issued in the first iteration of the     *)
(* sampling loop whose timeout check follows the expiry: the check, made   *)
(* once per iteration after the metrics update, goes on to the kill, and   *)
(* the kill to the wait for the exit.  Without a time limit call_program   *)
(* returns only after the process has exited, and without a kill.          *)
(***************************************************************************)
LimitSet(c) == limit[c].set
Expired(c) == now > t0[c] + limit[c].v
C24_Step ==
    \A c \in Calls :
        /\ (pc[c] = "check" /\ pc'[c] /= "check"
                /\ LimitSet(c) /\ Expired(c) /\ proc[c] = "running")
               => (pc'[c] = "kill" /\ killed'[c])
        /\ (pc[c] = "kill" /\ pc'[c] /= "kill")
               => (pc'[c] = "wait" /\ killSent'[c] = "timeout")
        /\ (pc[c] = "wait" /\ pc'[c] /= "wait") => proc'[c] = "reaped"
        /\ (~LimitSet(c) /\ pc[c] /= "returned" /\ pc'[c] = "returned")
               => (proc[c] = "reaped" /\ killSent[c] = "none")
C24_KillAtFirstCheckAfterExpiry == [][C24_Step]_vars

(***************************************************************************)
(* C25.  merge_params partitions by the external flag name of each input   *)
(* entry, not by the parameter's own Spark name: an entry whose flag is in *)
(* FLAG_TO_DIRECT_PARAM is placed in the direct map only, and one whose    *)
(* flag is in FLAG_TO_CONF_PARAM in the conf map only, both under the      *)
(* parameter's Spark name; an entry under any other flag is placed in      *)
(* neither.  So the keys of each map are the Spark names of the entries    *)
(* with a flag of its kind, and the names of its defaults; and with only   *)
(* the required direct flags, no search values and no defaults, the conf   *)
(* map is empty and no conf parameter name is in the direct map.           *)
(***************************************************************************)
InputEntries == ChainMap(tuner_cfg_dict, arg_dict)
NamesUnder(flags) ==
    {InputEntries[f].spark_name : f \in (DOMAIN InputEntries) \cap flags}
C25_PartitionByFlag ==
    MergedOk =>
        /\ DOMAIN merged[1].direct =
               NamesUnder(DOMAIN FLAG_TO_DIRECT_PARAM)
                   \cup DOMAIN spark_submit.direct_param_default
        /\ DOMAIN merged[1].conf =
               NamesUnder(DOMAIN FLAG_TO_CONF_PARAM)
                   \cup DOMAIN spark_submit.conf_defaults
        /\ (/\ arg_dict = RequiredArgsDict
            /\ tuner_cfg_dict = EmptyDict
            /\ spark_submit.direct_param_default = EmptyDict
            /\ spark_submit.conf_defaults = EmptyDict)
               => /\ merged[1].conf = EmptyDict
                  /\ \A n \in DOMAIN merged[1].direct : ~IsConfName(n)

\* a conf parameter given under a direct flag went to the direct map, and a
\* direct parameter given under a conf flag to the conf map
C25_Witness ==
    /\ MergedOk
    /\ InDict(arg_dict, "name")
    /\ arg_dict["name"].spark_name = "spark.dynamicAllocation.maxExecutors"
    /\ InDict(merged[1].direct, "spark.dynamicAllocation.maxExecutors")
    /\ ~InDict(merged[1].conf, "spark.dynamicAllocation.maxExecutors")
    /\ InDict(tuner_cfg_dict, "max_executors")
    /\ InDict(merged[1].conf, "executor-cores")
    /\ ~InDict(merged[1].direct, "executor-cores")

(***************************************************************************)
(* C26.  For the local-process collector, for every pid it follows, with k *)
(* the number of update calls since start(pid) registered it: the          *)
(* accumulated vcore-seconds are the sum over the k readings of            *)
(* max(cpuPercent, 100) * logicalCoreCount / 100, hence at least           *)
(* k * logicalCoreCount; the accumulated memory is the sum of the k        *)
(* resident sizes read; the sample count is k; and a reading taken after   *)
(* the process has exited is a zero memory reading that update adds        *)
(* without raising.                                                        *)
(***************************************************************************)
RECURSIVE SumOfRss(_)
SumOfRss(log) ==
    IF log = <<>> THEN 0 ELSE log[1].mem + SumOfRss(Tail(log))

RECURSIVE SumOfVcores(_, _)
SumOfVcores(log, n) ==
    IF log = <<>> THEN Fin(0)
    ELSE fadd(Rat((IF log[1].cpu > 100 THEN log[1].cpu ELSE 100) * n, 100),
              SumOfVcores(Tail(log), n))

C26_CollectorAccounting ==
    /\ DOMAIN process_dict = DOMAIN process_info_dict
    /\ DOMAIN sample_log = DOMAIN process_info_dict
    /\ \A p \in DOMAIN process_info_dict :
          LET info == process_info_dict[p]
              log == sample_log[p]
              k == Len(log)
          IN  /\ info[1] = SumOfRss(log)
              /\ feq(info[2], SumOfVcores(log, cpu_num))
              /\ fle(Fin(k * cpu_num), info[2])
              /\ info[4] = k
              /\ \A i \in 1..k : ~log[i].alive => log[i].mem = 0

\* two updates of one process: a reading of several busy cores while it
\* ran, then a reading after it had exited
C26_Witness ==
    /\ coll_pc = "metrics"
    /\ Len(call_log) = 2
    /\ call_log[1].alive /\ call_log[1].cpu > 100
    /\ ~call_log[2].alive
    /\ process_info_dict[process_id][4] = 2
    /\ process_info_dict[process_id][1] = call_log[1].mem

(***************************************************************************)
(* C27.  The metrics that call_program returns for a run cover only that   *)
(* run, whatever pid the operating system gave its subprocess:             *)
(* memorySeconds and vcoreSeconds are computed from the readings taken     *)
(* during that call, and elapsedTime from the time at which that call made *)
(* the collector start.                                                    *)
(***************************************************************************)
C27_MetricsOfThisRunOnly ==
    metrics /= <<>> =>
        /\ metrics[1].memorySeconds = SumOfRss(call_log) \div (1024 ^ 2)
        /\ feq(metrics[1].vcoreSeconds, SumOfVcores(call_log, cpu_num))
        /\ metrics[1].elapsedTime = metrics_at - call_t0

\* the same, for the calls whose subprocess had a pid that the collector
\* had not seen before
C27_HoldsForFreshPid ==
    (metrics /= <<>> /\ Len(sample_log[process_id]) = Len(call_log)) =>
        /\ metrics[1].memorySeconds = SumOfRss(call_log) \div (1024 ^ 2)
        /\ feq(metrics[1].vcoreSeconds, SumOfVcores(call_log, cpu_num))
        /\ metrics[1].elapsedTime = metrics_at - call_t0

(***************************************************************************)
(* C28.  A subprocess that ends by itself before its time limit has        *)
(* elapsed is never reported as timed out: wherever the exit falls in the  *)
(* sampling loop (metrics update, timeout check, poll), when the process   *)
(* ended by itself at a time not after t0 + limit, no kill is issued, and  *)
(* what call_program returns has timeout = false and a finite time.        *)
(***************************************************************************)
EndedInTime(c) == limit[c].set /\ in_time[c]
C28_ExitInTimeIsNoTimeout ==
    \A c \in Calls :
        EndedInTime(c) =>
            /\ ~killed[c]
            /\ killSent[c] /= "timeout"
            /\ out[c] /= <<>> =>
                   /\ out[c][1].timeout = FALSE
                   /\ IsFin(out[c][1].time)

(***************************************************************************)
(* C29.  In SparkConfigTuner, for every set of arguments that              *)
(* make_param_from_str accepts, a range given start above end included:    *)
(* each argument whose stored value is a tuple is a dimension of the       *)
(* search space that manipulator() builds and is overridden in run() by a  *)
(* point value of the search, so every value that merge_params puts into   *)
(* the direct or the conf map, and with it every value of the rendered     *)
(* command, is a scalar and never a tuple.                                 *)
(***************************************************************************)
TupleValued(flag) == self_param_dict[flag].value.t = "tuple"
C29_TuplesAreSearched ==
    /\ (search_space /= <<>> /\ search_space[1].ok) =>
           \A flag \in DOMAIN self_param_dict :
               TupleValued(flag) => flag \in DOMAIN search_space[1].dims
    /\ run_pc = "make_cmd" =>
           \A flag \in DOMAIN self_param_dict :
               TupleValued(flag) => flag \in DOMAIN tuner_cfg
    /\ (run_merged /= <<>> /\ run_merged[1].ok) =>
           /\ \A n \in DOMAIN run_merged[1].direct :
                  run_merged[1].direct[n].t /= "tuple"
           /\ \A n \in DOMAIN run_merged[1].conf :
                  run_merged[1].conf[n].t /= "tuple"

(***************************************************************************)
(* C30.  For fixed rel_tol and abs_tol, result_compare is a consistent     *)
(* ordering of results with finite, non-negative times and sizes: it is    *)
(* antisymmetric, result_compare(a, b) = -result_compare(b, a), and        *)
(* transitive, result_compare(a, b) <= 0 and result_compare(b, c) <= 0     *)
(* give result_compare(a, c) <= 0.                                         *)
(***************************************************************************)
FiniteResult(r) ==
    /\ IsFin(r.time) /\ r.time.n >= 0
    /\ IsFin(r.size) /\ r.size.n >= 0
Compare(a, b) == result_compare(a, b, rel_tol, abs_tol)
Antisymmetric(a, b) == Compare(a, b) = 0 - Compare(b, a)
Transitive(a, b, c) ==
    (Compare(a, b) <= 0 /\ Compare(b, c) <= 0) => Compare(a, c) <= 0
C30_ConsistentOrdering ==
    (FiniteResult(result1) /\ FiniteResult(result2)) =>
        /\ Antisymmetric(result1, result2)
        /\ \A result3 \in {r \in Results : FiniteResult(r)} :
               Transitive(result1, result2, result3)

====
